---- MODULE Spec2Model ----
(***************************************************************************)
(* Feed ingestion pipeline of smallweb-blog (scripts/fetch-feeds.js and    *)
(* its helpers in scripts/lib).  The latest revision of the fetcher is the *)
(* one in src/scripts/lib/db.js lines 419-850; the helper modules are in   *)
(* src/unnamed/part_007 (html.js, dedupe.js), src/unnamed/part_008         *)
(* (excerpt.js, concurrency.js, urls.js and the unit tests) and            *)
(* src/scripts/lib/fetch-config.js (fetch-config.js, dates.js).            *)
(*                                                                         *)
(* The module holds state machines over disjoint groups of variables (the  *)
(* runs of Spec, SpecEdits and SpecStores share theirs, SpecCalls adds its  *)
(* own to those of SpecSched):                                             *)
(*   SpecFetch  one fetchFeed call's network phase: direct fetch, relay    *)
(*              fallback and the retry loop of fetchViaProxy;              *)
(*   SpecSched  main's scheduling: mapWithLimit over the direct sources,   *)
(*              then the batches of rate-limit-sensitive sources;          *)
(*   Spec       the data flow of successive runs of main: fetch results,   *)
(*              merge with the store, upsert, cache export;                *)
(*   SpecEdits  the same runs over a feed whose items its publisher edits; *)
(*   SpecDates  one call of resolvePostDate;                               *)
(*   SpecVerify one run of the verifier over the exported files;           *)
(*   SpecKeys   one call of normalizeUrl or of getPostKey;                 *)
(*   SpecCalls  main's scheduling together with the requests inside each   *)
(*              fetchFeed call: feed, relay fallback, page excerpts;       *)
(*   SpecStores one run of main from a store that earlier runs left.       *)
(* In each specification the variables of the others stay parked.          *)
(***************************************************************************)
EXTENDS Integers, Sequences, FiniteSets, TLC

VARIABLES
  \* ---- one fetchFeed call (SpecFetch) ----
  fetchPc,        \* position inside fetchFeed / parseFeed / fetchViaProxy
  blog,           \* the source being fetched: [substack, proxy]
  useProxy,       \* fetchFeed's second argument
  attempt,        \* loop variable of fetchViaProxy
  requests,       \* relay requests sent by the current fetchViaProxy call
  waits,          \* sleeps of the current fetchViaProxy call: <<[ms, cause]>>
  responses,      \* what the requests of the current fetchViaProxy call came to
  relayCalls,     \* fetchViaProxy calls made by this fetchFeed call
  directCalls,    \* parser.parseURL calls made by this fetchFeed call
  directError,    \* the error the direct fetch threw, or NoError
  proxyOutcome,   \* how the last fetchViaProxy call ended: none/returned/threw
  thrown,         \* the error fetchViaProxy threw, or NoError
  fetchStatus,    \* status of the result fetchFeed returned: none/ok/error
  \* ---- main's scheduling of the fetches (SpecSched) ----
  mainPc,         \* position of main: start/pool/batch/sleep/persist
  config,         \* FETCH_CONFIG: the values loadFetchConfig produced
  blogs,          \* blogsData.blogs, the registry
  nextIndex,      \* mapWithLimit: next index to hand out
  workerPc,       \* mapWithLimit: per worker, await or done
  workerIndex,    \* mapWithLimit: per worker, the index it is working on
  otherResults,   \* mapWithLimit: the results array
  batchI,         \* loop variable i of the batch loop
  batchPending,   \* positions of the current batch still being fetched
  batchResults,   \* results of the current batch, by position
  substackResults,\* results pushed by the batch loop
  started,        \* per blog id: clock when its fetchFeed call started, or -1
  finished,       \* per blog id: clock when its fetchFeed call returned, or -1
  fetchCount,     \* per blog id: number of fetchFeed calls
  calledViaProxy, \* per blog id: the useProxy argument of its fetchFeed call
  batchOf,        \* per blog id: batchNum of the batch that fetched it, or 0
  clock,          \* the time
  sleepUntil,     \* when the pending sleep(SUBSTACK_BATCH_DELAY_MS) resolves
  sleepCount,     \* sleeps made by the batch loop
  overtaken,      \* history: a fetch returned while a fetch that stands
                  \* before it in the results was still in flight
  \* ---- the data flow of successive runs (Spec) ----
  runPc,          \* idle (no run) / fetching / done (files written)
  now,            \* Date.now(), in minutes
  feeds,          \* per source id: the feed upstream serves
  dbBlogs,        \* ids of the rows of table blogs
  dbPosts,        \* table posts, in rowid order
  dbFetchLog,     \* table fetch_log, in rowid order
  cacheFile,      \* data/cache/posts.json
  statusFile,     \* data/cache/status.json
  existingPosts,  \* main's existingPosts
  existingCacheLastUpdated, \* main's existingCacheLastUpdated
  results,        \* the fetchFeed results so far, in the order of results
  allPosts,       \* main's allPosts
  runs,           \* completed runs
  env,            \* what the environment did so far: events, write failures
  idsBefore,      \* history: the post ids in the table when the run started
  observed,       \* history: [blogId, key, id] of every post fetchFeed returned
  lastRun,        \* history: outcome of the previous run
  between,        \* history: what happened since the previous run ended
  runLog,         \* history: the store writes that failed in the run, the
                  \* files it wrote and the status it exited with (-1: none)
  \* ---- one call of the date resolver (SpecDates) ----
  datePc,         \* input (before the call) / resolved (after it)
  dateIn,         \* the arguments of resolvePostDate
  dateOut,        \* what resolvePostDate returned
  tz,             \* the time zone of the process (TZ): its offsets from UTC,
                  \* in minutes, before and after one transition
  \* ---- one run of the verifier (SpecVerify) ----
  verifyPc,       \* start (before the run) / exited (after it)
  defects,        \* how the files the verifier reads differ from sound ones
  artifacts,      \* what the verifier reads: both cache files, the registry
                  \* size, the post count of the store
  verifyLog,      \* the messages of fail and warn, process.exitCode, and
                  \* the status the process exited with (-1: none)
  \* ---- one call of normalizeUrl or getPostKey (SpecKeys) ----
  keyPc,          \* parked / input / returned
  keyIn,          \* the call: [fn, link, guid, title, baseUrl]
  urlOut,         \* what normalizeUrl returned
  keyOut,         \* what getPostKey returned
  \* ---- the requests of the fetchFeed calls of a run (SpecCalls) ----
  callConfig,     \* EXCERPT_CONCURRENCY, MAX_PAGE_EXCERPTS_PER_FEED,
                  \* FETCH_PAGE_EXCERPTS
  callFeed,       \* the items the sources serve in this run
  feedCalls       \* per blog id: its fetchFeed call

fetchVars == <<fetchPc, blog, useProxy, attempt, requests, waits, responses,
               relayCalls, directCalls, directError, proxyOutcome, thrown,
               fetchStatus>>

schedVars == <<mainPc, config, blogs, nextIndex, workerPc, workerIndex,
               otherResults, batchI, batchPending, batchResults,
               substackResults, started, finished, fetchCount, calledViaProxy,
               batchOf, clock, sleepUntil, sleepCount, overtaken>>

runVars == <<runPc, now, feeds, dbBlogs, dbPosts, dbFetchLog, cacheFile,
             statusFile, existingPosts, existingCacheLastUpdated, results,
             allPosts, runs, env, idsBefore, observed, lastRun, between,
             runLog>>

dateVars == <<datePc, dateIn, dateOut, tz>>

verifyVars == <<verifyPc, defects, artifacts, verifyLog>>

keyVars == <<keyPc, keyIn, urlOut, keyOut>>

callVars == <<callConfig, callFeed, feedCalls>>

vars == <<fetchVars, schedVars, runVars, dateVars, verifyVars, keyVars,
          callVars>>

Min(a, b) == IF a <= b THEN a ELSE b
Max(a, b) == IF a >= b THEN a ELSE b

-----------------------------------------------------------------------------
(* Errors.  An error value carries the two things the code inspects: a     *)
(* numeric status property (0 when the error has none), its name and its   *)
(* message.                                                                *)

NoError == [status |-> 0, name |-> "", msg |-> ""]

\* Messages of errors thrown by the direct fetch (parser.parseURL) that the
\* model draws from.
DirectMessages ==
  { "Status code 403", "Status code 404", "Status code 503",
    "Request timed out after 30000ms", "read ECONNRESET",
    "getaddrinfo ENOTFOUND example.com", "Non-whitespace before first tag" }

\* status properties an error thrown by the direct fetch may carry
DirectStatuses == {0, 403, 404, 429, 501, 503}

DirectErrors ==
  [status : DirectStatuses, name : {"Error"}, msg : DirectMessages]

\* error?.statusCode || error?.status in the list of shouldRetryViaProxy
RetryStatuses == {401, 403, 408, 425, 429, 500, 502, 503, 504}

\* The messages of the model that the regular expression of
\* shouldRetryViaProxy matches:
\* /status code 403|status code 401|status code 429|timed out|timeout|
\*  ETIMEDOUT|ECONNRESET|EAI_AGAIN|ENOTFOUND/i
MatchesRetryPattern(msg) ==
  msg \in { "Status code 403", "Request timed out after 30000ms",
            "read ECONNRESET", "getaddrinfo ENOTFOUND example.com",
            "The operation was aborted due to timeout",
            "Proxy returned 504: upstream timeout" }

\* shouldRetryViaProxy without its test of the status property
shouldRetryViaProxyNoStatus(error) == MatchesRetryPattern(error.msg)

shouldRetryViaProxy(error) ==
  \/ error.status # 0 /\ error.status \in RetryStatuses
  \/ MatchesRetryPattern(error.msg)

-----------------------------------------------------------------------------
(* fetchViaProxy: the relay client.                                        *)

\* retries = 3, the default the only call site (parseFeed) uses
Retries == 3
\* backoffMs = attempt * 5000 after a 403
BackoffStepMs == 5000
\* sleep(2000) after a timeout
TimeoutSleepMs == 2000

\* What one relay request can come to.  A response has a status; a response
\* that is not ok becomes Error(`Proxy returned ${status}: ${text}`), whose
\* text is errorData.error || response.statusText.  fetch itself, or
\* response.text(), may throw instead: a TimeoutError when the signal of
\* AbortSignal.timeout fires, a TypeError when the connection is refused or
\* reset (fetch failed, with the ECONNRESET in its cause) or is reset while
\* the body is read (terminated).
RelayResponses ==
  { [kind |-> "ok", status |-> 200, err |-> NoError],
    [kind |-> "status", status |-> 403,
       err |-> [status |-> 0, name |-> "Error",
                msg |-> "Proxy returned 403: Failed to fetch RSS feed"]],
    [kind |-> "status", status |-> 500,
       err |-> [status |-> 0, name |-> "Error",
                msg |-> "Proxy returned 500: RSS fetch failed"]],
    [kind |-> "status", status |-> 504,
       err |-> [status |-> 0, name |-> "Error",
                msg |-> "Proxy returned 504: upstream timeout"]],
    [kind |-> "throw", status |-> 0,
       err |-> [status |-> 0, name |-> "TimeoutError",
                msg |-> "The operation was aborted due to timeout"]],
    [kind |-> "throw", status |-> 0,
       err |-> [status |-> 0, name |-> "TypeError", msg |-> "fetch failed"]],
    [kind |-> "bodythrow", status |-> 200,
       err |-> [status |-> 0, name |-> "TypeError", msg |-> "terminated"]] }

\* error.message.includes('timeout'), for the messages of the model
MessageIncludesTimeout(msg) ==
  msg \in { "The operation was aborted due to timeout",
            "Proxy returned 504: upstream timeout" }

\* a test of the catch block that also takes a reset connection for
\* retryable
IsTimeoutOrResetError(error) ==
  \/ error.name = "TimeoutError" \/ MessageIncludesTimeout(error.msg)
  \/ error.name = "TypeError"

\* the test of the catch block of fetchViaProxy
IsTimeoutError(error) ==
  error.name = "TimeoutError" \/ MessageIncludesTimeout(error.msg)

\* a backoff that does not grow with the attempt
BackoffMsFlat(n) == BackoffStepMs

BackoffMs(n) == n * BackoffStepMs

\* a host test that matches no feed URL
isSubstackFeedNever(b) == FALSE

\* isSubstackFeed(blog.feed): url.includes('substack.com')
isSubstackFeed(b) == b.substack

shouldUseProxy == useProxy \/ isSubstackFeed(blog) \/ blog.proxy

\* the sources the model fetches: a plain one, one on substack.com, one with
\* "proxy": true
FetchBlogs ==
  { [substack |-> FALSE, proxy |-> FALSE],
    [substack |-> TRUE, proxy |-> FALSE],
    [substack |-> FALSE, proxy |-> TRUE] }

\* the fetchFeed variables while another state machine runs
ParkedFetch ==
  /\ fetchPc = "parked"
  /\ blog = [substack |-> FALSE, proxy |-> FALSE]
  /\ useProxy = FALSE
  /\ attempt = 0
  /\ requests = 0
  /\ waits = <<>>
  /\ responses = <<>>
  /\ relayCalls = 0
  /\ directCalls = 0
  /\ directError = NoError
  /\ proxyOutcome = "none"
  /\ thrown = NoError
  /\ fetchStatus = "none"

InitFetchCall ==
  /\ fetchPc = "idle"
  /\ blog = [substack |-> FALSE, proxy |-> FALSE]
  /\ useProxy = FALSE
  /\ attempt = 0
  /\ requests = 0
  /\ waits = <<>>
  /\ responses = <<>>
  /\ relayCalls = 0
  /\ directCalls = 0
  /\ directError = NoError
  /\ proxyOutcome = "none"
  /\ thrown = NoError
  /\ fetchStatus = "none"

\* entering fetchViaProxy from a fetchFeed call that made `calls` relay
\* calls before: attempt = 1 and the first request is sent
EnterFetchViaProxy(calls) ==
  /\ fetchPc' = "fetch"
  /\ attempt' = 1
  /\ requests' = 1
  /\ waits' = <<>>
  /\ responses' = <<>>
  /\ relayCalls' = calls + 1
  /\ proxyOutcome' = "none"
  /\ thrown' = NoError

\* fetchFeed(blog, useProxy, ...) up to its first await: parseFeed is called
\* with shouldUseProxy.  main passes useProxy = FALSE to the direct sources
\* and TRUE to the sensitive ones.
FetchFeedCall ==
  /\ fetchPc \in {"idle", "returned"}
  /\ \E b \in FetchBlogs :
       /\ blog' = b
       /\ useProxy' = (isSubstackFeed(b) \/ b.proxy)
       /\ directError' = NoError
       /\ fetchStatus' = "none"
       /\ IF isSubstackFeed(b) \/ b.proxy
            THEN /\ EnterFetchViaProxy(0)
                 /\ directCalls' = 0
            ELSE /\ directCalls' = 1
                 /\ fetchPc' = "parseURL"
                 /\ attempt' = 0
                 /\ requests' = 0
                 /\ waits' = <<>>
                 /\ responses' = <<>>
                 /\ relayCalls' = 0
                 /\ proxyOutcome' = "none"
                 /\ thrown' = NoError

\* parser.parseURL(blog.feed) resolves: the items are processed and fetchFeed
\* returns status ok
ParseURLOk ==
  /\ fetchPc = "parseURL"
  /\ fetchPc' = "returned"
  /\ fetchStatus' = "ok"
  /\ UNCHANGED <<blog, useProxy, attempt, requests, waits, responses,
                 relayCalls, directCalls, directError, proxyOutcome, thrown>>

\* parser.parseURL(blog.feed) rejects with error e: the inner catch of
\* fetchFeed either calls parseFeed(blog, true) or rethrows to the outer
\* catch, which returns status error
ParseURLFail ==
  /\ fetchPc = "parseURL"
  /\ \E e \in DirectErrors :
       /\ directError' = e
       /\ IF ~shouldUseProxy /\ shouldRetryViaProxy(e)
            THEN /\ EnterFetchViaProxy(relayCalls)
                 /\ UNCHANGED fetchStatus
            ELSE /\ fetchPc' = "returned"
                 /\ fetchStatus' = "error"
                 /\ UNCHANGED <<attempt, requests, waits, responses,
                                relayCalls, proxyOutcome, thrown>>
  /\ UNCHANGED <<blog, useProxy, directCalls>>

\* fetchViaProxy throws error e out of its loop: parseFeed rejects and the
\* outer catch of fetchFeed returns status error
ProxyThrows(e) ==
  /\ fetchPc' = "returned"
  /\ proxyOutcome' = "threw"
  /\ thrown' = e
  /\ fetchStatus' = "error"
  /\ UNCHANGED <<attempt, requests, waits>>

\* the catch block without its first line, if (attempt === retries) throw error
ProxyCatchNoLimit(e) ==
  IF IsTimeoutError(e)
    THEN /\ fetchPc' = "sleep"
         /\ waits' = Append(waits, [ms |-> TimeoutSleepMs, cause |-> "timeout"])
         /\ UNCHANGED <<attempt, requests, proxyOutcome, thrown, fetchStatus>>
    ELSE ProxyThrows(e)

\* the catch block of fetchViaProxy, entered with error e
ProxyCatch(e) ==
  IF attempt = Retries
    THEN ProxyThrows(e)
    ELSE IF IsTimeoutError(e)
      THEN /\ fetchPc' = "sleep"
           /\ waits' = Append(waits, [ms |-> TimeoutSleepMs, cause |-> "timeout"])
           /\ UNCHANGED <<attempt, requests, proxyOutcome, thrown, fetchStatus>>
      ELSE ProxyThrows(e)

\* the relay request of the current attempt comes to r
ProxyResponse ==
  /\ fetchPc = "fetch"
  /\ \E r \in RelayResponses :
       /\ responses' = Append(responses, r)
       /\ CASE r.kind = "ok" ->
                 /\ fetchPc' = "parseString"
                 /\ proxyOutcome' = "returned"
                 /\ UNCHANGED <<attempt, requests, waits, thrown, fetchStatus>>
            [] r.kind = "status" /\ r.status = 403 /\ attempt < Retries ->
                 /\ fetchPc' = "sleep"
                 /\ waits' = Append(waits, [ms |-> BackoffMs(attempt), cause |-> "blocked"])
                 /\ UNCHANGED <<attempt, requests, proxyOutcome, thrown, fetchStatus>>
            [] OTHER -> ProxyCatch(r.err)
  /\ UNCHANGED <<blog, useProxy, relayCalls, directCalls, directError>>

\* the sleep ends; the for loop increments attempt and, attempt <= retries
\* holding, sends the next request
SleepDone ==
  /\ fetchPc = "sleep"
  /\ attempt' = attempt + 1
  /\ IF attempt + 1 <= Retries
       THEN /\ fetchPc' = "fetch"
            /\ requests' = requests + 1
            /\ UNCHANGED <<proxyOutcome, fetchStatus>>
       ELSE \* the loop ends and the function returns undefined
            /\ fetchPc' = "parseString"
            /\ proxyOutcome' = "fellthrough"
            /\ UNCHANGED <<requests, fetchStatus>>
  /\ UNCHANGED <<blog, useProxy, waits, responses, relayCalls, directCalls,
                 directError, thrown>>

\* parser.parseString(rssContent) resolves or rejects
ParseString ==
  /\ fetchPc = "parseString"
  /\ fetchPc' = "returned"
  /\ \E parsed \in BOOLEAN :
       fetchStatus' = IF parsed /\ proxyOutcome = "returned" THEN "ok" ELSE "error"
  /\ UNCHANGED <<blog, useProxy, attempt, requests, waits, responses,
                 relayCalls, directCalls, directError, proxyOutcome, thrown>>


-----------------------------------------------------------------------------
(* main's scheduling: mapWithLimit over the direct sources, then the batch *)
(* loop over the rate-limit-sensitive sources.                             *)

\* registry sizes the model explores
MaxBlogs == 3
\* loadFetchConfig accepts every positive integer; the model explores
\* FEED_CONCURRENCY in 1..MaxConcurrency, SUBSTACK_BATCH_SIZE in
\* 1..MaxBatchSize and SUBSTACK_BATCH_DELAY_MS in 1..MaxDelay clock units
MaxConcurrency == 2
MaxBatchSize == 2
MaxDelay == 2
\* the clock stops advancing at MaxClock
MaxClock == 4

\* parseEnvInt: a positive integer, the given value or the default
Configs ==
  [FEED_CONCURRENCY : 1..MaxConcurrency,
   SUBSTACK_BATCH_SIZE : 1..MaxBatchSize,
   SUBSTACK_BATCH_DELAY_MS : 1..MaxDelay]

\* registries: up to MaxBlogs sources, each plain, on substack.com or flagged
\* "proxy": true; the id of a source is its position
Registries ==
  UNION { { [i \in 1..n |-> [id |-> i, substack |-> k[i].substack, proxy |-> k[i].proxy]]
            : k \in [1..n -> FetchBlogs] } : n \in 0..MaxBlogs }

\* blogs.filter(b => isSubstackFeed(b.feed) || b.proxy === true)
IsSensitive(b) == isSubstackFeed(b) \/ b.proxy
FilterSubstack(bs) == SelectSeq(bs, IsSensitive)
\* IsOther with the proxy flag left out: a flagged source on another host
\* is in both lists
IsOtherIgnoringFlag(b) == ~isSubstackFeed(b)
\* blogs.filter(b => !isSubstackFeed(b.feed) && b.proxy !== true)
IsOther(b) == ~isSubstackFeed(b) /\ ~b.proxy
FilterOther(bs) == SelectSeq(bs, IsOther)

substackBlogs == FilterSubstack(blogs)
otherBlogs == FilterOther(blogs)

NoResult == [blogId |-> 0, status |-> "none"]
FetchOutcomes == {"ok", "error"}

\* a pool as wide as the list, whatever the limit
WorkerCountUnbounded(limit, n) == Max(1, n)

\* workerCount = Math.max(1, Math.min(limit, items.length))
WorkerCount(limit, n) == Max(1, Min(limit, n))

\* results.push(await fn(...)): the results in the order the calls return
ResultSlotByReturn(index, returned) == returned + 1

\* results[index] = await fn(items[index], index): the place (1-based) of
\* the result of the item at index
ResultSlot(index, returned) == index + 1

\* no delay between batches
NeedsDelayNever(i, size, n) == FALSE

\* if (i + SUBSTACK_BATCH_SIZE < substackBlogs.length)
NeedsDelay(i, size, n) == i + size < n

\* batchNum = Math.floor(i / SUBSTACK_BATCH_SIZE) + 1
BatchNum(i, size) == (i \div size) + 1

\* the positions (1-based) of substackBlogs.slice(i, i + SUBSTACK_BATCH_SIZE)
BatchSlice(i, size, n) == (i + 1)..Min(i + size, n)

ParkedSched ==
  /\ mainPc = "parked"
  /\ config = [FEED_CONCURRENCY |-> 1, SUBSTACK_BATCH_SIZE |-> 1,
               SUBSTACK_BATCH_DELAY_MS |-> 1]
  /\ blogs = <<>>
  /\ nextIndex = 0
  /\ workerPc = <<>>
  /\ workerIndex = <<>>
  /\ otherResults = <<>>
  /\ batchI = 0
  /\ batchPending = {}
  /\ batchResults = <<>>
  /\ substackResults = <<>>
  /\ started = <<>>
  /\ finished = <<>>
  /\ fetchCount = <<>>
  /\ calledViaProxy = <<>>
  /\ batchOf = <<>>
  /\ clock = 0
  /\ sleepUntil = 0
  /\ sleepCount = 0
  /\ overtaken = FALSE

\* main after the registry is read and the configuration loaded
InitMain ==
  /\ mainPc = "start"
  /\ config \in Configs
  /\ blogs \in Registries
  /\ nextIndex = 0
  /\ workerPc = <<>>
  /\ workerIndex = <<>>
  /\ otherResults = <<>>
  /\ batchI = 0
  /\ batchPending = {}
  /\ batchResults = <<>>
  /\ substackResults = <<>>
  /\ started = [i \in 1..Len(blogs) |-> -1]
  /\ finished = [i \in 1..Len(blogs) |-> -1]
  /\ fetchCount = [i \in 1..Len(blogs) |-> 0]
  /\ calledViaProxy = [i \in 1..Len(blogs) |-> FALSE]
  /\ batchOf = [i \in 1..Len(blogs) |-> 0]
  /\ clock = 0
  /\ sleepUntil = 0
  /\ sleepCount = 0
  /\ overtaken = FALSE

\* fetchFeed is called for each source of ids, with useProxy = viaProxy
StartFetches(ids, viaProxy, batchNum) ==
  /\ started' = [i \in 1..Len(blogs) |-> IF i \in ids THEN clock ELSE started[i]]
  /\ fetchCount' = [i \in 1..Len(blogs) |->
                      IF i \in ids THEN fetchCount[i] + 1 ELSE fetchCount[i]]
  /\ calledViaProxy' = [i \in 1..Len(blogs) |->
                      IF i \in ids THEN viaProxy ELSE calledViaProxy[i]]
  /\ batchOf' = [i \in 1..Len(blogs) |->
                      IF i \in ids THEN batchNum ELSE batchOf[i]]

\* mapWithLimit(otherBlogs, FEED_CONCURRENCY, blog => fetchFeed(blog, false, ...)):
\* the workers are created one after the other and each runs up to its first
\* await: it takes index nextIndex++ and either returns (index >= length) or
\* calls fn(items[index], index)
MapWithLimitStart ==
  /\ mainPc = "start"
  /\ LET n == Len(otherBlogs)
         wc == WorkerCount(config.FEED_CONCURRENCY, n)
     IN /\ workerIndex' = [w \in 1..wc |-> w - 1]
        /\ workerPc' = [w \in 1..wc |-> IF w - 1 < n THEN "await" ELSE "done"]
        /\ nextIndex' = wc
        /\ otherResults' = [k \in 1..n |-> NoResult]
        /\ StartFetches({otherBlogs[k].id : k \in 1..Min(wc, n)}, FALSE, 0)
  /\ mainPc' = "pool"
  /\ UNCHANGED <<config, blogs, batchI, batchPending, batchResults,
                 substackResults, finished, clock, sleepUntil, sleepCount,
                 overtaken>>

\* the fetchFeed call of worker w returns: results[index] is set, and the
\* worker takes the next index
WorkerResume(w) ==
  /\ mainPc = "pool"
  /\ w \in DOMAIN workerPc
  /\ workerPc[w] = "await"
  /\ LET n == Len(otherBlogs)
         k == workerIndex[w] + 1
         index == nextIndex
         returned == Cardinality({j \in DOMAIN otherResults :
                                    otherResults[j] # NoResult})
     IN /\ \E outcome \in FetchOutcomes :
             otherResults' = [otherResults EXCEPT
                                ![ResultSlot(workerIndex[w], returned)] =
                                  [blogId |-> otherBlogs[k].id, status |-> outcome]]
        /\ overtaken' = (overtaken \/ \E v \in DOMAIN workerPc :
                                         /\ workerPc[v] = "await"
                                         /\ workerIndex[v] < workerIndex[w])
        /\ finished' = [finished EXCEPT ![otherBlogs[k].id] = clock]
        /\ nextIndex' = nextIndex + 1
        /\ workerIndex' = [workerIndex EXCEPT ![w] = index]
        /\ IF index >= n
             THEN /\ workerPc' = [workerPc EXCEPT ![w] = "done"]
                  /\ UNCHANGED <<started, fetchCount, calledViaProxy, batchOf>>
             ELSE /\ UNCHANGED workerPc
                  /\ StartFetches({otherBlogs[index + 1].id}, FALSE, 0)
  /\ UNCHANGED <<mainPc, config, blogs, batchI, batchPending, batchResults,
                 substackResults, clock, sleepUntil, sleepCount>>

\* the batch loop arrives at index i: either the loop ends (i >= length) or
\* batch = substackBlogs.slice(i, i + SUBSTACK_BATCH_SIZE) is fetched with
\* Promise.all(batch.map(blog => fetchFeed(blog, true, ...)))
BatchLoopAt(i) ==
  LET n == Len(substackBlogs)
      size == config.SUBSTACK_BATCH_SIZE
  IN IF i < n
       THEN /\ mainPc' = "batch"
            /\ batchI' = i
            /\ batchPending' = BatchSlice(i, size, n)
            /\ batchResults' = [k \in BatchSlice(i, size, n) |-> NoResult]
            /\ StartFetches({substackBlogs[k].id : k \in BatchSlice(i, size, n)},
                            TRUE, BatchNum(i, size))
       ELSE /\ mainPc' = "persist"
            /\ batchI' = i
            /\ batchPending' = {}
            /\ batchResults' = <<>>
            /\ UNCHANGED <<started, fetchCount, calledViaProxy, batchOf>>

\* Promise.all(workers) resolves: mapWithLimit returns and the batch loop
\* starts with i = 0
PoolJoin ==
  /\ mainPc = "pool"
  /\ \A w \in DOMAIN workerPc : workerPc[w] = "done"
  /\ BatchLoopAt(0)
  /\ UNCHANGED <<config, blogs, nextIndex, workerPc, workerIndex, otherResults,
                 substackResults, finished, clock, sleepUntil, sleepCount,
                 overtaken>>

\* one fetchFeed call of the current batch returns
BatchFetchDone(k) ==
  /\ mainPc = "batch"
  /\ k \in batchPending
  /\ \E outcome \in FetchOutcomes :
       batchResults' = [batchResults EXCEPT
                          ![k] = [blogId |-> substackBlogs[k].id, status |-> outcome]]
  /\ batchPending' = batchPending \ {k}
  /\ finished' = [finished EXCEPT ![substackBlogs[k].id] = clock]
  /\ overtaken' = (overtaken \/ \E j \in batchPending : j < k)
  /\ UNCHANGED <<mainPc, config, blogs, nextIndex, workerPc, workerIndex,
                 otherResults, batchI, substackResults, started, fetchCount,
                 calledViaProxy, batchOf, clock, sleepUntil, sleepCount>>

\* Promise.all of the batch resolves: the results are pushed, then either
\* sleep(SUBSTACK_BATCH_DELAY_MS) is awaited or the loop goes on at once
BatchJoin ==
  /\ mainPc = "batch"
  /\ batchPending = {}
  /\ LET n == Len(substackBlogs)
         size == config.SUBSTACK_BATCH_SIZE
         slice == BatchSlice(batchI, size, n)
         pushed == [j \in 1..(Len(substackResults) + Cardinality(slice)) |->
                      IF j <= Len(substackResults)
                        THEN substackResults[j]
                        ELSE batchResults[batchI + (j - Len(substackResults))]]
     IN /\ substackResults' = pushed
        /\ IF NeedsDelay(batchI, size, n)
             THEN /\ mainPc' = "sleep"
                  /\ sleepUntil' = clock + config.SUBSTACK_BATCH_DELAY_MS
                  /\ sleepCount' = sleepCount + 1
                  /\ UNCHANGED <<batchI, batchPending, batchResults, started,
                                 fetchCount, calledViaProxy, batchOf>>
             ELSE /\ BatchLoopAt(batchI + size)
                  /\ UNCHANGED <<sleepUntil, sleepCount>>
  /\ UNCHANGED <<config, blogs, nextIndex, workerPc, workerIndex, otherResults,
                 finished, clock, overtaken>>

\* a timer that never fires
TimerFiredNever(t, until) == FALSE

\* sleep(ms) = new Promise(resolve => setTimeout(resolve, ms)): the timer
\* fires once its delay has elapsed
TimerFired(t, until) == t >= until

\* the timer of sleep fires, not before its delay has elapsed: i += size and
\* the loop goes on
SleepWake ==
  /\ mainPc = "sleep"
  /\ TimerFired(clock, sleepUntil)
  /\ BatchLoopAt(batchI + config.SUBSTACK_BATCH_SIZE)
  /\ UNCHANGED <<config, blogs, nextIndex, workerPc, workerIndex, otherResults,
                 substackResults, finished, clock, sleepUntil, sleepCount,
                 overtaken>>

\* time passes while main awaits a batch or a sleep (the model keeps no time
\* for the pool of direct fetches); past MaxClock it passes only until the
\* timer main sleeps on is due
Tick ==
  /\ mainPc \in {"batch", "sleep"}
  /\ clock < MaxClock \/ (mainPc = "sleep" /\ clock < sleepUntil)
  /\ clock' = clock + 1
  /\ UNCHANGED <<mainPc, config, blogs, nextIndex, workerPc, workerIndex,
                 otherResults, batchI, batchPending, batchResults,
                 substackResults, started, finished, fetchCount,
                 calledViaProxy, batchOf, sleepUntil, sleepCount, overtaken>>

\* the rest of main has no await: merge, upsertPosts, insertFetchLogs, the
\* two writeFileSync, then finally db.close() and process.exit; whether it
\* returns or throws, the process exits (the data of this step is that of
\* MainFinish and Exit)
PersistAndExit ==
  /\ mainPc = "persist"
  /\ mainPc' = "exited"
  /\ UNCHANGED <<config, blogs, nextIndex, workerPc, workerIndex,
                 otherResults, batchI, batchPending, batchResults,
                 substackResults, started, finished, fetchCount,
                 calledViaProxy, batchOf, clock, sleepUntil, sleepCount,
                 overtaken>>

-----------------------------------------------------------------------------
(* Texts, URLs and post ids (urls.js, dedupe.js).                          *)
(* A text is known by its char codes.  The value of a link or guid field    *)
(* is a record: a URL with the parts that new URL() parses (host labels, an *)
(* optional yyyy/mm/dd path prefix, a slug, trailing slashes, the names of  *)
(* its query parameters, each with the value 1, and a fragment #f), or a    *)
(* text that is no absolute URL (no host, the text in the field text).      *)

\* str.charCodeAt(i) for the texts of the model
CharCodes(s) ==
  CASE s = "" -> <<>>
    [] s = "a" -> <<97>>
    [] s = "b" -> <<98>>
    [] s = "io" -> <<105, 111>>
    [] s = "substack" -> <<115, 117, 98, 115, 116, 97, 99, 107>>
    [] s = "com" -> <<99, 111, 109>>
    [] s = "www" -> <<119, 119, 119>>
    [] s = "Aa" -> <<65, 97>>
    [] s = "BB" -> <<66, 66>>
    [] s = "q" -> <<113>>
    [] s = "r" -> <<114>>
    [] s = " q " -> <<32, 113, 32>>
    [] s = " " -> <<32>>
    [] s = "T1" -> <<84, 49>>
    [] s = "T2" -> <<84, 50>>
    [] s = "https://" -> <<104, 116, 116, 112, 115, 58, 47, 47>>
    [] s = "http://" -> <<104, 116, 116, 112, 58, 47, 47>>
    [] s = "=1" -> <<61, 49>>
    [] s = "#f" -> <<35, 102>>
    [] s = "keep" -> <<107, 101, 101, 112>>
    [] s = "utm" -> <<117, 116, 109>>
    [] s = "refx" -> <<114, 101, 102, 120>>
    [] s = "UTM_Source" -> <<85, 84, 77, 95, 83, 111, 117, 114, 99, 101>>
    [] s = "Ref" -> <<82, 101, 102>>
    [] s = "utm_x" -> <<117, 116, 109, 95, 120>>
    [] s = "utm_source" -> <<117, 116, 109, 95, 115, 111, 117, 114, 99, 101>>
    [] s = "utm_medium" -> <<117, 116, 109, 95, 109, 101, 100, 105, 117, 109>>
    [] s = "utm_campaign" -> <<117, 116, 109, 95, 99, 97, 109, 112, 97, 105, 103, 110>>
    [] s = "utm_term" -> <<117, 116, 109, 95, 116, 101, 114, 109>>
    [] s = "utm_content" -> <<117, 116, 109, 95, 99, 111, 110, 116, 101, 110, 116>>
    [] s = "utm_id" -> <<117, 116, 109, 95, 105, 100>>
    [] s = "utm_reader" -> <<117, 116, 109, 95, 114, 101, 97, 100, 101, 114>>
    [] s = "utm_source_platform" -> <<117, 116, 109, 95, 115, 111, 117, 114, 99, 101, 95, 112, 108, 97, 116, 102, 111, 114, 109>>
    [] s = "utm_marketing_tactic" -> <<117, 116, 109, 95, 109, 97, 114, 107, 101, 116, 105, 110, 103, 95, 116, 97, 99, 116, 105, 99>>
    [] s = "utm_pubref" -> <<117, 116, 109, 95, 112, 117, 98, 114, 101, 102>>
    [] s = "gclid" -> <<103, 99, 108, 105, 100>>
    [] s = "fbclid" -> <<102, 98, 99, 108, 105, 100>>
    [] s = "mc_cid" -> <<109, 99, 95, 99, 105, 100>>
    [] s = "mc_eid" -> <<109, 99, 95, 101, 105, 100>>
    [] s = "ref" -> <<114, 101, 102>>
    [] s = "ref_src" -> <<114, 101, 102, 95, 115, 114, 99>>
    [] s = "source" -> <<115, 111, 117, 114, 99, 101>>
    [] s = "sourceid" -> <<115, 111, 117, 114, 99, 101, 105, 100>>
    [] s = "_hsenc" -> <<95, 104, 115, 101, 110, 99>>
    [] s = "_hsmi" -> <<95, 104, 115, 109, 105>>
    [] s = "mkt_tok" -> <<109, 107, 116, 95, 116, 111, 107>>
    [] s = "utm_" -> <<117, 116, 109, 95>>
    [] s = "https://a.io/Aa?keep=1" -> <<104, 116, 116, 112, 115, 58, 47, 47, 97, 46, 105, 111, 47, 65, 97, 63, 107, 101, 101, 112, 61, 49>>

\* str.trim() for the texts of the model
trim(s) ==
  CASE s = " q " -> "q"
    [] s = " " -> ""
    [] OTHER -> s

NoYmd == [y |-> 0, m |-> 0, d |-> 0]

\* the empty string as a URL value (a missing link or guid)
NoUrl == [host |-> <<>>, ymd |-> NoYmd, slug |-> "", slashes |-> 0,
          query |-> <<>>, frag |-> FALSE, text |-> ""]

Url(host, ymd, slug) ==
  [host |-> host, ymd |-> ymd, slug |-> slug, slashes |-> 0,
   query |-> <<>>, frag |-> FALSE, text |-> ""]

\* a link or guid that is no absolute URL (guid-123, a blank)
PlainText(s) == [NoUrl EXCEPT !.text = s]

\* decimal digits of n, padded to width
RECURSIVE DigitCodes(_, _)
DigitCodes(n, width) ==
  IF width = 0 THEN <<>>
  ELSE DigitCodes(n \div 10, width - 1) \o <<48 + (n % 10)>>

RECURSIVE JoinLabels(_)
JoinLabels(labels) ==
  IF Len(labels) = 0 THEN <<>>
  ELSE IF Len(labels) = 1 THEN CharCodes(labels[1])
  ELSE CharCodes(labels[1]) \o <<46>> \o JoinLabels(Tail(labels))

RECURSIVE Slashes(_)
Slashes(n) == IF n = 0 THEN <<>> ELSE <<47>> \o Slashes(n - 1)

\* url.pathname
PathCodes(u) ==
  <<47>>
  \o (IF u.ymd = NoYmd THEN <<>>
      ELSE DigitCodes(u.ymd.y, 4) \o <<47>> \o DigitCodes(u.ymd.m, 2) \o <<47>>
           \o DigitCodes(u.ymd.d, 2) \o <<47>>)
  \o CharCodes(u.slug) \o Slashes(u.slashes)

\* url.searchParams.toString(): name=value pairs joined by &
RECURSIVE ParamCodes(_)
ParamCodes(names) ==
  IF Len(names) = 0 THEN <<>>
  ELSE CharCodes(names[1]) \o CharCodes("=1")
       \o (IF Len(names) = 1 THEN <<>> ELSE <<38>> \o ParamCodes(Tail(names)))

\* url.search: query ? `?${query}` : ''
QueryCodes(u) ==
  IF Len(u.query) = 0 THEN <<>> ELSE <<63>> \o ParamCodes(u.query)

\* url.toString(); a text that is no URL is the text itself
UrlString(u) ==
  IF u.host = <<>> THEN CharCodes(u.text)
  ELSE CharCodes("https://") \o JoinLabels(u.host) \o PathCodes(u)
       \o QueryCodes(u) \o (IF u.frag THEN CharCodes("#f") ELSE <<>>)

\* key.toLowerCase()
toLowerCase(codes) ==
  [i \in DOMAIN codes |->
     IF codes[i] >= 65 /\ codes[i] <= 90 THEN codes[i] + 32 ELSE codes[i]]

\* str.startsWith(prefix)
startsWith(codes, prefix) ==
  /\ Len(codes) >= Len(prefix)
  /\ SubSeq(codes, 1, Len(prefix)) = prefix

\* TRACKING_PARAMS
TRACKING_PARAMS ==
  {"utm_source", "utm_medium", "utm_campaign", "utm_term",
   "utm_content", "utm_id", "utm_reader", "utm_source_platform",
   "utm_marketing_tactic", "utm_pubref", "gclid", "fbclid", "mc_cid",
   "mc_eid", "ref", "ref_src", "source", "sourceid", "_hsenc", "_hsmi",
   "mkt_tok"}

\* lower.startsWith('utm_') || TRACKING_PARAMS.has(lower)
HasTrackingName(lower) ==
  \/ startsWith(lower, CharCodes("utm_"))
  \/ lower \in {CharCodes(p) : p \in TRACKING_PARAMS}

\* the test of normalizeUrl's loop without key.toLowerCase()
IsTrackingParamCaseSensitive(key) == HasTrackingName(CharCodes(key))

\* const lower = key.toLowerCase(), and the test on it
IsTrackingParam(key) == HasTrackingName(toLowerCase(CharCodes(key)))

\* the parameters left after url.searchParams.delete(key) for every
\* tracking key
RECURSIVE DeleteTracking(_)
DeleteTracking(names) ==
  IF Len(names) = 0 THEN <<>>
  ELSE IF IsTrackingParam(names[1]) THEN DeleteTracking(Tail(names))
  ELSE <<names[1]>> \o DeleteTracking(Tail(names))

\* baseUrl ? new URL(rawUrl, baseUrl) : new URL(rawUrl); NoUrl stands for
\* the TypeError of a text that is no URL with no base to resolve it.  An
\* absolute URL ignores the base; a blank resolves to the base; another
\* text replaces the last segment of the base's path (the bases of the
\* model are sites' URLs, whose path does not end in a slash).
ParseUrl(rawUrl, baseUrl) ==
  IF rawUrl.host # <<>> THEN rawUrl
  ELSE IF baseUrl.host = <<>> THEN NoUrl
  ELSE IF trim(rawUrl.text) = "" THEN baseUrl
  ELSE [baseUrl EXCEPT !.slug = trim(rawUrl.text), !.slashes = 0,
                       !.query = <<>>, !.frag = FALSE]

\* the try block of normalizeUrl on the parsed url, and its catch block
\* when the text does not parse
Canonical(url, rawUrl) ==
  IF url = NoUrl THEN PlainText(trim(rawUrl.text))
  ELSE [url EXCEPT
          !.frag = FALSE,
          !.query = DeleteTracking(url.query),
          !.slashes = IF Len(PathCodes(url)) > 1 /\ url.slashes >= 1
                        THEN url.slashes - 1
                        ELSE url.slashes]

\* normalizeUrl(rawUrl, baseUrl): the hash is cleared, the tracking
\* parameters are deleted, and one trailing slash of a path longer than "/"
\* is removed; a text that does not parse is returned trimmed
normalizeUrl(rawUrl, baseUrl) ==
  IF rawUrl = NoUrl THEN NoUrl
  ELSE Canonical(ParseUrl(rawUrl, baseUrl), rawUrl)

\* guid.startsWith('http://') || guid.startsWith('https://')
IsHttp(guid) ==
  \/ startsWith(guid, CharCodes("http://"))
  \/ startsWith(guid, CharCodes("https://"))

\* normalizeGuid that canonicalizes a guid starting with http:// or
\* https:// and drops every other guid
normalizeGuidUrlOnly(rawGuid, baseUrl) ==
  IF rawGuid = NoUrl THEN NoUrl
  ELSE IF IsHttp(UrlString(rawGuid))
    THEN normalizeUrl(rawGuid, baseUrl)
    ELSE NoUrl

\* normalizeGuid(rawGuid, baseUrl): a guid starting with http:// or
\* https:// is canonicalized as a link is, another guid is returned trimmed
normalizeGuid(rawGuid, baseUrl) ==
  IF rawGuid = NoUrl THEN NoUrl
  ELSE IF IsHttp(UrlString(rawGuid))
    THEN normalizeUrl(rawGuid, baseUrl)
    ELSE PlainText(trim(rawGuid.text))

\* a || b on strings: a unless it is empty
OrElse(a, b) == IF a # <<>> THEN a ELSE b

\* a || b on links
UrlOrElse(a, b) == IF a # NoUrl THEN a ELSE b

\* getPostKey({link, guid, title, baseUrl}): the canonical link, else the
\* normalized guid, else the trimmed title; the key is the text of a URL,
\* of a guid or of the title
getPostKey(link, guid, title, baseUrl) ==
  OrElse(UrlString(normalizeUrl(link, baseUrl)),
         OrElse(UrlString(normalizeGuid(guid, baseUrl)),
                CharCodes(trim(title))))

\* makeLookupKey that leaves the source out
makeLookupKeyNoBlog(blogId, postKey) == <<"", postKey>>

\* makeLookupKey(blogId, postKey): `${blogId}::${postKey}`
makeLookupKey(blogId, postKey) == <<blogId, postKey>>

\* 32-bit integers as two 16-bit halves [hi, lo]
\* hash = ((hash << 5) - hash) + char; hash &= hash
HashStep(h, c) ==
  LET lo == 31 * h.lo + c
      hi == 31 * h.hi + (lo \div 65536)
  IN [hi |-> hi % 65536, lo |-> lo % 65536]

RECURSIVE HashFrom(_, _, _)
HashFrom(codes, i, h) ==
  IF i > Len(codes) THEN h ELSE HashFrom(codes, i + 1, HashStep(h, codes[i]))

\* Math.abs(hash) of the int32 whose bits are h (abs(-2^31) is 2^31)
AbsInt32(h) ==
  IF h.hi < 32768 THEN h
  ELSE [hi |-> (65535 - h.hi + (IF h.lo = 0 THEN 1 ELSE 0)) % 65536,
        lo |-> (65536 - h.lo) % 65536]

\* n.toString(36): the digits, most significant first
RECURSIVE ToBase36(_)
ToBase36(h) ==
  LET r == h.hi % 36
      t == r * 65536 + h.lo
      q == [hi |-> h.hi \div 36, lo |-> t \div 36]
  IN IF q.hi = 0 /\ q.lo = 0 THEN <<t % 36>> ELSE ToBase36(q) \o <<t % 36>>

\* generatePostId whose result also depends on the run that computes it
generatePostIdSalted(blogId, key) ==
  ToBase36(AbsInt32(HashFrom(CharCodes(blogId) \o <<45>> \o key \o DigitCodes(runs, 1),
                             1, [hi |-> 0, lo |-> 0])))

\* generatePostId(blogId, key)
generatePostId(blogId, key) ==
  ToBase36(AbsInt32(HashFrom(CharCodes(blogId) \o <<45>> \o key, 1,
                             [hi |-> 0, lo |-> 0])))

-----------------------------------------------------------------------------
(* Dates (dates.js).  An instant is a number of minutes since               *)
(* 2024-01-01T00:00Z; toISOString writes an instant and new Date reads it   *)
(* back, so a stored date is the instant itself.  NoDate is null.           *)

NoDate == -1
\* a date text that new Date() does not parse
BadDate == -2
MinutesPerDay == 1440
MAX_FUTURE_DAYS == 2
RECENT_PRIMARY_DAYS == 7
INFERRED_DATE_MAX_DIFF_DAYS == 30
DEFAULT_MAX_POSTS_PER_BLOG == 25

Abs(n) == IF n < 0 THEN 0 - n ELSE n

\* days of 2024 before month m
DaysBeforeMonth(m) ==
  CASE m = 1 -> 0 [] m = 2 -> 31 [] m = 3 -> 60 [] m = 4 -> 91
    [] m = 5 -> 121 [] m = 6 -> 152 [] m = 7 -> 182 [] m = 8 -> 213
    [] m = 9 -> 244 [] m = 10 -> 274 [] m = 11 -> 305 [] m = 12 -> 335

\* Date.UTC(year, month - 1, day), for the dates of 2024
DateUTC(ymd) == (DaysBeforeMonth(ymd.m) + ymd.d - 1) * MinutesPerDay

\* normalizeDate(value): null for a missing value and for a text that does
\* not parse, else the instant
normalizeDate(value) == IF value \in {NoDate, BadDate} THEN NoDate ELSE value

\* inferDateFromText(text) for the text of a URL: the first yyyy/mm/dd of
\* its path
inferDateFromText(u) ==
  IF u = NoUrl \/ u.ymd = NoYmd THEN NoDate ELSE DateUTC(u.ymd)

\* normalizeHost(rawUrl): the host name without a leading www.
normalizeHost(u) ==
  IF u = NoUrl THEN <<>>
  ELSE IF Len(u.host) > 0 /\ u.host[1] = "www" THEN Tail(u.host) ELSE u.host

\* a ends with "." + b
EndsWithDot(a, b) ==
  /\ Len(a) > Len(b)
  /\ SubSeq(a, Len(a) - Len(b) + 1, Len(a)) = b

\* hostsMatch(a, b)
hostsMatch(a, b) ==
  IF Len(a) = 0 \/ Len(b) = 0 THEN FALSE
  ELSE a = b \/ EndsWithDot(a, b) \/ EndsWithDot(b, a)

\* shouldInferDateFromLink(blog, link, guid)
shouldInferDateFromLink(b, link, guid) ==
  IF b.ignoreLinkDateInference THEN FALSE
  ELSE IF b.allowLinkDateInference THEN TRUE
  ELSE hostsMatch(normalizeHost(b.url),
                  normalizeHost(IF link # NoUrl THEN link ELSE guid))

\* the zone of a process that runs with TZ=UTC, as the scheduled workflow's
\* runners do
ZoneUTC == [transition |-> 0, before |-> 0, after |-> 0]

\* TZ=America/New_York around 2024-03-10T07:00Z, when its clocks went from
\* 02:00 EST to 03:00 EDT
ZoneNewYork == [transition |-> 69 * MinutesPerDay + 420, before |-> 0 - 300,
                after |-> 0 - 240]

\* LocalTime(t) of ECMAScript: the local time value of an instant
LocalTime(t) == t + (IF t < tz.transition THEN tz.before ELSE tz.after)

\* UTC(t) of ECMAScript: the instant of a local time value; a local time
\* that occurs twice stands for its first occurrence, a local time the
\* clocks skipped is read with the offset before the transition
LocalToUTC(t) ==
  IF t - tz.before < tz.transition THEN t - tz.before
  ELSE IF t - tz.after >= tz.transition THEN t - tz.after
  ELSE t - tz.before

\* offsetDate(dateIso, minutes): date.setMinutes(date.getMinutes() - minutes)
\* works on the fields of the local time
offsetDate(date, minutes) == LocalToUTC(LocalTime(date) - minutes)

\* isFutureDate(dateIso, nowMs, maxFutureDays)
isFutureDate(date, nowMs, maxFutureDays) ==
  IF date = NoDate THEN FALSE
  ELSE date - nowMs > maxFutureDays * MinutesPerDay

\* shouldPreferInferredDate(primaryIso, inferredIso, nowMs, opts): the
\* quotients of the code are compared as products
shouldPreferInferredDate(primary, inferred, nowMs) ==
  IF primary = NoDate \/ inferred = NoDate THEN FALSE
  ELSE IF inferred >= primary THEN FALSE
  ELSE /\ Abs(primary - inferred) >= INFERRED_DATE_MAX_DIFF_DAYS * MinutesPerDay
       /\ Abs(nowMs - primary) <= RECENT_PRIMARY_DAYS * MinutesPerDay

\* a resolver that takes a valid primary date before it looks at the
\* inferred one
resolvePostDatePrimaryFirst(item, feed, b, index, existingDate, nowMs) ==
  LET inferred ==
        IF shouldInferDateFromLink(b, item.link, item.guid)
          THEN IF inferDateFromText(item.link) # NoDate
                 THEN inferDateFromText(item.link)
                 ELSE inferDateFromText(item.guid)
          ELSE NoDate
      existing == IF b.ignoreLinkDateInference THEN NoDate
                  ELSE normalizeDate(existingDate)
      Valid(d) == d # NoDate /\ ~isFutureDate(d, nowMs, MAX_FUTURE_DAYS)
  IN IF Valid(normalizeDate(item.isoDate)) THEN normalizeDate(item.isoDate)
     ELSE IF Valid(inferred) THEN inferred
     ELSE IF Valid(existing) THEN existing
     ELSE IF b.allowMissingDates THEN offsetDate(nowMs, index)
     ELSE NoDate

\* a resolver that synthesizes a date for every source
resolvePostDateAnySource(item, feed, b, index, existingDate, nowMs) ==
  LET kept == resolvePostDatePrimaryFirst(item, feed, b, index, existingDate, nowMs)
  IN IF kept # NoDate THEN kept ELSE offsetDate(nowMs, index)

\* resolvePostDateWithConfig(item, feed, blog, index, existingDate, nowMs, opts)
resolvePostDate(item, feed, b, index, existingDate, nowMs) ==
  LET normalizedPrimary == normalizeDate(item.isoDate)
      inferred ==
        IF shouldInferDateFromLink(b, item.link, item.guid)
          THEN IF inferDateFromText(item.link) # NoDate
                 THEN inferDateFromText(item.link)
                 ELSE inferDateFromText(item.guid)
          ELSE NoDate
      normalizedInferred == normalizeDate(inferred)
      existing == IF b.ignoreLinkDateInference THEN NoDate
                  ELSE normalizeDate(existingDate)
      primaryValid == normalizedPrimary # NoDate
                      /\ ~isFutureDate(normalizedPrimary, nowMs, MAX_FUTURE_DAYS)
      inferredValid == normalizedInferred # NoDate
                       /\ ~isFutureDate(normalizedInferred, nowMs, MAX_FUTURE_DAYS)
      existingValid == existing # NoDate
                       /\ ~isFutureDate(existing, nowMs, MAX_FUTURE_DAYS)
      fallback == normalizeDate(feed.lastBuildDate)
      fallbackBase == IF fallback # NoDate
                         /\ ~isFutureDate(fallback, nowMs, MAX_FUTURE_DAYS)
                        THEN fallback ELSE nowMs
  IN IF primaryValid /\ inferredValid
        /\ shouldPreferInferredDate(normalizedPrimary, normalizedInferred, nowMs)
       THEN normalizedInferred
     ELSE IF primaryValid THEN normalizedPrimary
     ELSE IF inferredValid THEN normalizedInferred
     ELSE IF existingValid THEN existing
     ELSE IF b.allowMissingDates THEN offsetDate(fallbackBase, index)
     ELSE NoDate

-----------------------------------------------------------------------------
(* The data of a run: registry, feeds, posts, the store and the files.     *)

\* bounds of the run model: items per feed, runs, and what the environment
\* does between two runs
MaxItems == 2
\* items of all feeds together
MaxTotalItems == 3
MaxRuns == 2
\* what happens between the runs: time passing, feed changes, database
\* losses and runs of the exporter, together
MaxEvents == 1
\* days by which the clock advances between two runs
TickDays == 8
\* store writes that fail, over all runs
MaxWriteFailures == 1

Day(n) == n * MinutesPerDay

\* the instant of the first run: 2024-04-10T00:00Z
FirstRunAt == Day(100)

HostA == <<"a", "io">>
HostB == <<"b", "substack", "com">>

\* data/blogs.json: a plain source fetched directly, and a source on
\* substack.com, fetched through the relay, that allows missing dates
Registry ==
  << [id |-> "a", url |-> Url(HostA, NoYmd, ""), substack |-> FALSE,
      proxy |-> FALSE, allowMissingDates |-> FALSE,
      ignoreLinkDateInference |-> FALSE, allowLinkDateInference |-> FALSE,
      maxPosts |-> 0],
     [id |-> "b", url |-> Url(HostB, NoYmd, ""), substack |-> TRUE,
      proxy |-> FALSE, allowMissingDates |-> TRUE,
      ignoreLinkDateInference |-> FALSE, allowLinkDateInference |-> FALSE,
      maxPosts |-> 0] >>

RegistryIds == {Registry[k].id : k \in DOMAIN Registry}

\* results = [...otherResults, ...substackResults]: the order of the results
FetchOrder == FilterOther(Registry) \o FilterSubstack(Registry)

\* an item as rss-parser delivers it
Item(link, title, isoDate) ==
  [link |-> link, guid |-> NoUrl, title |-> title, isoDate |-> isoDate,
   snippet |-> ""]

\* the items upstream feeds carry: a post; the same post linked with a
\* trailing slash, a tracking parameter and a fragment; a post whose id
\* collides with the first ("Aa" and "BB" hash alike); a recent post whose
\* link carries a much older date; an item without a date
Items ==
  { Item(Url(HostA, NoYmd, "Aa"), "T1", Day(50)),
    Item([Url(HostA, NoYmd, "Aa") EXCEPT !.slashes = 1, !.query = <<"utm_source">>,
                                     !.frag = TRUE],
         "T2", Day(51)),
    Item(Url(HostA, NoYmd, "BB"), "T3", Day(60)),
    Item(Url(HostA, [y |-> 2024, m |-> 1, d |-> 10], "q"), "T4", Day(98)),
    Item(Url(HostA, NoYmd, "r"), "T5", NoDate) }

\* the sequences of at most n members of S
SeqsUpTo(S, n) == UNION {[1..k -> S] : k \in 0..n}

\* what parser.parseURL / parser.parseString return for a source
Feeds == [items : SeqsUpTo(Items, MaxItems), lastBuildDate : {NoDate}]

RECURSIVE SumLens(_, _)
SumLens(f, ids) ==
  IF ids = {} THEN 0
  ELSE LET id == CHOOSE x \in ids : TRUE
       IN Len(f[id].items) + SumLens(f, ids \ {id})

\* the number of items the feeds hold
TotalItems(f) == SumLens(f, DOMAIN f)

NoPost == [id |-> <<>>, blogId |-> "", title |-> "", link |-> NoUrl,
           date |-> NoDate, excerpt |-> ""]

\* a missing or unreadable cache file
NoCache == [exists |-> FALSE, lastUpdated |-> NoDate, posts |-> <<>>]
NoStatusFile == [exists |-> FALSE, lastUpdated |-> NoDate, feeds |-> <<>>,
                 summary |-> [total |-> 0, healthy |-> 0, errors |-> 0]]

\* getMaxPostsForBlog(blog)
getMaxPostsForBlog(b) ==
  IF b.maxPosts > 0 THEN b.maxPosts ELSE DEFAULT_MAX_POSTS_PER_BLOG

\* getLookupKeyForPost(post)
getLookupKeyForPost(post) ==
  makeLookupKey(post.blogId,
                OrElse(getPostKey(post.link, NoUrl, post.title, NoUrl), post.id))

\* the key under which main indexes an existing post in existingPostsByKey
ExistingKey(post) ==
  makeLookupKey(post.blogId, getPostKey(post.link, NoUrl, post.title, NoUrl))

\* the post at the last of the places idx of existing, NoPost (undefined)
\* when there is none
LastAt(existing, idx) ==
  IF idx = {} THEN NoPost
  ELSE existing[CHOOSE k \in idx : \A j \in idx : j <= k]

\* existingPostsByKey.get(lookupKey): a later entry of the Map constructor's
\* list replaces an earlier one with the same key
ExistingPostFor(existing, lookupKey) ==
  LastAt(existing, {k \in DOMAIN existing : ExistingKey(existing[k]) = lookupKey})

\* item.link || item.guid || blog.url
ItemLink(item, b) ==
  IF item.link # NoUrl THEN item.link
  ELSE IF item.guid # NoUrl THEN item.guid ELSE b.url

\* canonicalLink || link, with canonicalLink = normalizeUrl(link, blog.url)
ResolvedLink(link, b) == UrlOrElse(normalizeUrl(link, b.url), link)

\* the postKey fetchFeed gives an item: getPostKey(...) || `${blog.id}-item-${index}`
ItemPostKey(item, index, b) ==
  OrElse(getPostKey(ResolvedLink(ItemLink(item, b), b), item.guid, item.title,
                    b.url),
         CharCodes(b.id) \o <<45, 105, 116, 101, 109, 45>> \o DigitCodes(index, 1))

\* the post object of an item whose date resolved to postDate, NoPost
\* (null) when none did: the existing post's id, excerpt and title stand in
\* where the item gives none
PostDated(item, b, resolvedLink, postKey, existingPost, postDate) ==
  IF postDate = NoDate THEN NoPost
  ELSE [id |-> IF existingPost # NoPost /\ existingPost.id # <<>>
                 THEN existingPost.id
                 ELSE generatePostId(b.id, postKey),
        blogId |-> b.id,
        title |-> IF item.title # "" THEN item.title
                  ELSE IF existingPost.title # "" THEN existingPost.title
                  ELSE "Untitled",
        link |-> resolvedLink,
        date |-> postDate,
        excerpt |-> IF item.snippet # "" THEN item.snippet
                    ELSE existingPost.excerpt]

\* the item callback once existingPost is looked up
PostFrom(item, index, feed, b, nowMs, resolvedLink, postKey, existingPost) ==
  PostDated(item, b, resolvedLink, postKey, existingPost,
            resolvePostDate(item, feed, b, index, existingPost.date, nowMs))

\* the item callback once the link and the postKey are computed
PostWithKey(item, index, feed, b, existing, nowMs, resolvedLink, postKey) ==
  PostFrom(item, index, feed, b, nowMs, resolvedLink, postKey,
           ExistingPostFor(existing, makeLookupKey(b.id, postKey)))

\* the body of fetchFeed's item callback: the post of an item, or NoPost
\* (null) when no date resolves.  Page excerpts are off (FETCH_PAGE_EXCERPTS
\* is false under GITHUB_ACTIONS); the titles and snippets of the model hold
\* no markup, so decodeHtmlEntities and createExcerpt leave them as they are.
PostOfItem(item, index, feed, b, existing, nowMs) ==
  PostWithKey(item, index, feed, b, existing, nowMs,
              ResolvedLink(ItemLink(item, b), b), ItemPostKey(item, index, b))

IsPost(p) == p # NoPost

\* fetchFeed after the feed is parsed: items.slice(0, maxPosts), the item
\* callback for each, and the nulls filtered out
FetchedPosts(b, feed, existing, nowMs) ==
  LET n == Min(Len(feed.items), getMaxPostsForBlog(b))
      postsRaw == [k \in 1..n |-> PostOfItem(feed.items[k], k - 1, feed, b,
                                             existing, nowMs)]
  IN SelectSeq(postsRaw, IsPost)

\* the value fetchFeed returns
OkResult(b, fetched, nowMs) ==
  [posts |-> fetched,
   status |-> [blogId |-> b.id, status |-> "ok", postCount |-> Len(fetched),
               lastFetched |-> nowMs, error |-> ""]]

ErrorResult(b, nowMs) ==
  [posts |-> <<>>,
   status |-> [blogId |-> b.id, status |-> "error", postCount |-> 0,
               lastFetched |-> nowMs, error |-> "fetch failed"]]

\* Array.prototype.sort((a, b) => date(b) - date(a)): stable, descending
RECURSIVE InsertByDate(_, _)
InsertByDate(sorted, p) ==
  IF sorted = <<>> THEN <<p>>
  ELSE IF Head(sorted).date >= p.date
    THEN <<Head(sorted)>> \o InsertByDate(Tail(sorted), p)
    ELSE <<p>> \o sorted

RECURSIVE SortByDateDesc(_)
SortByDateDesc(s) ==
  IF s = <<>> THEN <<>>
  ELSE InsertByDate(SortByDateDesc(SubSeq(s, 1, Len(s) - 1)), s[Len(s)])

\* results.flatMap(r => r.posts)
RECURSIVE FlatPosts(_)
FlatPosts(rs) ==
  IF rs = <<>> THEN <<>> ELSE Head(rs).posts \o FlatPosts(Tail(rs))

\* the two loops over freshPosts and existingPosts: a post is pushed unless
\* its lookup key was seen
RECURSIVE PushUnseen(_, _, _)
\* one turn of the loop: the first post, whose lookup key is key
PushFirst(posts, seen, acc, key) ==
  IF key \in seen THEN PushUnseen(Tail(posts), seen, acc)
  ELSE PushUnseen(Tail(posts), seen \cup {key}, Append(acc, Head(posts)))

PushUnseen(posts, seen, acc) ==
  IF posts = <<>> THEN acc
  ELSE PushFirst(posts, seen, acc, getLookupKeyForPost(Head(posts)))

\* a merge that pushes every post
MergePostsNoDedupe(rs, existing) ==
  SortByDateDesc(SortByDateDesc(FlatPosts(rs)) \o existing)

\* a merge without the final sort
MergePostsUnsorted(rs, existing) ==
  PushUnseen(SortByDateDesc(FlatPosts(rs)) \o existing, {}, <<>>)

\* allPosts of main: fresh posts by date, then existing posts, first post of
\* a lookup key wins, sorted by date
MergePosts(rs, existing) ==
  SortByDateDesc(PushUnseen(SortByDateDesc(FlatPosts(rs)) \o existing, {}, <<>>))

-----------------------------------------------------------------------------
(* The store (lib/db.js) and the runs of main.                             *)

\* an upsert whose conflict target is the source: the row of the post's
\* source is overwritten
UpsertRowByBlog(table, post, fetchedAt) ==
  IF \E k \in DOMAIN table : table[k].blog_id = post.blogId
    THEN [k \in DOMAIN table |->
            IF table[k].blog_id = post.blogId
              THEN [table[k] EXCEPT !.id = post.id, !.title = post.title,
                                    !.link = post.link, !.date = post.date,
                                    !.excerpt = post.excerpt]
              ELSE table[k]]
    ELSE Append(table, [id |-> post.id, blog_id |-> post.blogId,
                        title |-> post.title, link |-> post.link,
                        date |-> post.date, excerpt |-> post.excerpt,
                        fetched_at |-> fetchedAt])

\* INSERT INTO posts ... ON CONFLICT(id) DO UPDATE SET title, link, date,
\* excerpt: the row keeps its blog_id and fetched_at
UpsertRow(table, post, fetchedAt) ==
  IF \E k \in DOMAIN table : table[k].id = post.id
    THEN [k \in DOMAIN table |->
            IF table[k].id = post.id
              THEN [table[k] EXCEPT !.title = post.title, !.link = post.link,
                                    !.date = post.date,
                                    !.excerpt = post.excerpt]
              ELSE table[k]]
    ELSE Append(table, [id |-> post.id, blog_id |-> post.blogId,
                        title |-> post.title, link |-> post.link,
                        date |-> post.date, excerpt |-> post.excerpt,
                        fetched_at |-> fetchedAt])

\* upsertPosts(db, posts, fetchedAt): one transaction, the rows in order
RECURSIVE upsertPosts(_, _, _)
upsertPosts(table, posts, fetchedAt) ==
  IF posts = <<>> THEN table
  ELSE upsertPosts(UpsertRow(table, Head(posts), fetchedAt), Tail(posts), fetchedAt)

\* row -> post of loadPosts
RowPost(row) ==
  [id |-> row.id, blogId |-> row.blog_id, title |-> row.title,
   link |-> row.link, date |-> row.date, excerpt |-> row.excerpt]

\* loadPosts(db): SELECT ... ORDER BY date DESC; rows of equal date come in
\* rowid order
loadPosts(table) == SortByDateDesc([k \in DOMAIN table |-> RowPost(table[k])])

\* an insert that keeps one row per source: the new row of a source takes
\* the place of the rows the table held for it
insertFetchLogsReplacing(log, statuses) ==
  SelectSeq(log, LAMBDA row : \A k \in DOMAIN statuses :
                                statuses[k].blogId # row.blog_id)
  \o [k \in DOMAIN statuses |->
        [blog_id |-> statuses[k].blogId, status |-> statuses[k].status,
         post_count |-> statuses[k].postCount, error |-> statuses[k].error,
         fetched_at |-> statuses[k].lastFetched]]

\* insertFetchLogs(db, logs)
insertFetchLogs(log, statuses) ==
  log \o [k \in DOMAIN statuses |->
            [blog_id |-> statuses[k].blogId, status |-> statuses[k].status,
             post_count |-> statuses[k].postCount, error |-> statuses[k].error,
             fetched_at |-> statuses[k].lastFetched]]

\* hasFetchLogs(db)
hasFetchLogs(log) == Len(log) > 0

CountStatus(statuses, s) ==
  Cardinality({k \in DOMAIN statuses : statuses[k].status = s})

\* a summary that counts every row as healthy
SummaryAllHealthy(statuses) ==
  [total |-> Len(statuses), healthy |-> Len(statuses),
   errors |-> CountStatus(statuses, "error")]

\* summary: { total, healthy, errors } of a status file, as the fetcher and
\* the exporter compute it from the rows they write
Summary(statuses) ==
  [total |-> Len(statuses), healthy |-> CountStatus(statuses, "ok"),
   errors |-> CountStatus(statuses, "error")]

\* the permutations of 1..n
Perms(n) == {f \in [1..n -> 1..n] : \A i, j \in 1..n : i # j => f[i] # f[j]}

\* a selection of the row with the smallest id per blog_id
LatestRowsOldest(log) ==
  {k \in DOMAIN log : \A j \in DOMAIN log : log[j].blog_id = log[k].blog_id => j >= k}

\* the rows getLatestLogs selects: per blog_id the row with the largest id
LatestRows(log) ==
  {k \in DOMAIN log : \A j \in DOMAIN log : log[j].blog_id = log[k].blog_id => j <= k}

\* row -> status of getLatestLogs
RowStatus(row) ==
  [blogId |-> row.blog_id, status |-> row.status, postCount |-> row.post_count,
   lastFetched |-> row.fetched_at, error |-> row.error]

\* getLatestLogs(db): the query has no ORDER BY, so the rows come in any
\* order
getLatestLogs(log) ==
  LET rows == LatestRows(log)
      n == Cardinality(rows)
      inOrder == CHOOSE f \in [1..n -> rows] :
                   \A i, j \in 1..n : i < j => f[i] < f[j]
  IN {[i \in 1..n |-> RowStatus(log[inOrder[p[i]]])] : p \in Perms(n)}

\* getLastUpdated(logs): the latest lastFetched, or the present time when
\* there is none
RECURSIVE MaxLastFetched(_)
MaxLastFetched(logs) ==
  IF logs = <<>> THEN 0
  ELSE Max(Head(logs).lastFetched, MaxLastFetched(Tail(logs)))

getLastUpdated(logs, nowMs) ==
  IF MaxLastFetched(logs) # 0 THEN MaxLastFetched(logs) ELSE nowMs

\* nothing failed, nothing written, not exited; logBefore is the fetch_log
\* table as the run found it
NoRunLog == [failed |-> {}, wrote |-> {}, exitCode |-> -1, logBefore |-> <<>>]

ParkedRun ==
  /\ runPc = "parked"
  /\ now = 0
  /\ feeds = <<>>
  /\ dbBlogs = {}
  /\ dbPosts = <<>>
  /\ dbFetchLog = <<>>
  /\ cacheFile = NoCache
  /\ statusFile = NoStatusFile
  /\ existingPosts = <<>>
  /\ existingCacheLastUpdated = NoDate
  /\ results = <<>>
  /\ allPosts = <<>>
  /\ runs = 0
  /\ env = [events |-> 0, failures |-> 0]
  /\ idsBefore = {}
  /\ observed = {}
  /\ lastRun = [valid |-> FALSE, allOk |-> FALSE, store |-> {}, cache |-> {}]
  /\ between = {}
  /\ runLog = NoRunLog

\* before the first run: no database, no cache files, and upstream feeds of
\* any content
InitRuns ==
  /\ runPc = "idle"
  /\ now = FirstRunAt
  /\ feeds \in {f \in [RegistryIds -> Feeds] : TotalItems(f) <= MaxTotalItems}
  /\ dbBlogs = {}
  /\ dbPosts = <<>>
  /\ dbFetchLog = <<>>
  /\ cacheFile = NoCache
  /\ statusFile = NoStatusFile
  /\ existingPosts = <<>>
  /\ existingCacheLastUpdated = NoDate
  /\ results = <<>>
  /\ allPosts = <<>>
  /\ runs = 0
  /\ env = [events |-> 0, failures |-> 0]
  /\ idsBefore = {}
  /\ observed = {}
  /\ lastRun = [valid |-> FALSE, allOk |-> FALSE, store |-> {}, cache |-> {}]
  /\ between = {}
  /\ runLog = NoRunLog

\* the sets of writes that may fail in one step: subsets of the writes the
\* step attempts, within the bound on failures
FailureSets(attempted) ==
  {F \in SUBSET attempted : Cardinality(F) <= MaxWriteFailures - env.failures}

\* main from its start to the first fetch: openDb, upsertBlogs, loadPosts,
\* the seeding of an empty posts table from the cache file, the seeding of an
\* empty fetch_log from the status file.  A write to the store may throw (a
\* constraint, a locked or full database); each write is one transaction, so
\* a failed write leaves its table as it was.  The seeding writes stand
\* inside try { ... } catch { } blocks, which swallow what they throw.  (The
\* model lets the writes of posts and of fetch-log rows fail; openDb and
\* upsertBlogs succeed.)
MainStart ==
  /\ runPc = "idle"
  /\ runs < MaxRuns
  /\ LET loaded == loadPosts(dbPosts)
         seedPosts == cacheFile.posts
         seeds == cacheFile.exists /\ Len(loaded) = 0 /\ Len(seedPosts) > 0
         seedAt == IF cacheFile.lastUpdated # NoDate THEN cacheFile.lastUpdated
                   ELSE now
         seedsLogs == /\ ~hasFetchLogs(dbFetchLog)
                      /\ statusFile.exists
                      /\ Len(statusFile.feeds) > 0
         attempted == (IF seeds THEN {"seedPosts"} ELSE {})
                        \cup (IF seedsLogs THEN {"seedLogs"} ELSE {})
     IN \E F \in FailureSets(attempted) :
          /\ runLog' = [NoRunLog EXCEPT !.failed = F, !.logBefore = dbFetchLog]
          /\ env' = [env EXCEPT !.failures = @ + Cardinality(F)]
          /\ dbBlogs' = dbBlogs \cup RegistryIds
          /\ dbPosts' = IF seeds /\ "seedPosts" \notin F
                          THEN upsertPosts(dbPosts, seedPosts, seedAt)
                          ELSE dbPosts
          /\ existingPosts' = IF seeds /\ "seedPosts" \notin F
                                THEN seedPosts ELSE loaded
          /\ existingCacheLastUpdated' =
               IF cacheFile.exists THEN cacheFile.lastUpdated ELSE NoDate
          /\ dbFetchLog' =
               IF seedsLogs /\ "seedLogs" \notin F
                 THEN insertFetchLogs(dbFetchLog, statusFile.feeds)
                 ELSE dbFetchLog
  /\ runPc' = "fetching"
  /\ idsBefore' = {dbPosts[k].id : k \in DOMAIN dbPosts}
  /\ results' = <<>>
  /\ allPosts' = <<>>
  /\ UNCHANGED <<now, feeds, cacheFile, statusFile, runs, observed, lastRun,
                 between>>

\* fetchFeed(b) returns: the posts fetched, or an error result with none
FetchReturns(b, fetched) ==
  \E outcome \in FetchOutcomes :
    /\ results' = Append(results,
                         IF outcome = "ok" THEN OkResult(b, fetched, now)
                         ELSE ErrorResult(b, now))
    /\ observed' =
         IF outcome = "ok"
           THEN observed \cup
                  {[blogId |-> b.id,
                    key |-> getLookupKeyForPost(fetched[k]),
                    id |-> fetched[k].id] : k \in DOMAIN fetched}
           ELSE observed

\* fetchFeed(b) over the feed the source serves now
FetchFeedOf(b) ==
  FetchReturns(b, FetchedPosts(b, feeds[b.id], existingPosts, now))

\* the fetchFeed call of the next source in the order of the results
\* returns: parseFeed delivered the feed, or the fetch or the parse failed
FetchFeed ==
  /\ runPc = "fetching"
  /\ Len(results) < Len(FetchOrder)
  /\ FetchFeedOf(FetchOrder[Len(results) + 1])
  /\ UNCHANGED <<runPc, now, feeds, dbBlogs, dbPosts, dbFetchLog, cacheFile,
                 statusFile, existingPosts, existingCacheLastUpdated,
                 allPosts, runs, env, idsBefore, lastRun, between, runLog>>

\* the writes main attempts: upsertPosts when there are posts,
\* insertFetchLogs when there are statuses
Attempted(merged, allStatuses) ==
  (IF Len(merged) > 0 THEN {"posts"} ELSE {})
    \cup (IF Len(allStatuses) > 0 THEN {"logs"} ELSE {})

\* main's writes of the merged posts and of the statuses of the run
Persist(merged, allStatuses) ==
  \E F \in FailureSets(Attempted(merged, allStatuses)) :
    /\ "posts" \in F => F = {"posts"}
    /\ allPosts' = merged
    /\ env' = [env EXCEPT !.failures = @ + Cardinality(F)]
    /\ dbPosts' = IF "posts" \in F THEN dbPosts
                  ELSE upsertPosts(dbPosts, merged, now)
    /\ dbFetchLog' = IF F # {} THEN dbFetchLog
                     ELSE insertFetchLogs(dbFetchLog, allStatuses)
    /\ IF F # {}
         THEN /\ runPc' = "failed"
              /\ runLog' = [runLog EXCEPT !.failed = @ \cup F]
              /\ UNCHANGED <<cacheFile, statusFile>>
         ELSE /\ runPc' = "done"
              /\ runLog' = [runLog EXCEPT
                              !.wrote = {"posts.json", "status.json"}]
              /\ cacheFile' =
                   [exists |-> TRUE,
                    lastUpdated |->
                      IF CountStatus(allStatuses, "ok") = 0
                           /\ existingCacheLastUpdated # NoDate
                        THEN existingCacheLastUpdated ELSE now,
                    posts |-> IF Len(merged) > 0 THEN merged
                              ELSE existingPosts]
              /\ statusFile' =
                   [exists |-> TRUE, lastUpdated |-> now,
                    feeds |-> allStatuses,
                    summary |-> Summary(allStatuses)]

\* main after the fetches: merge, upsert, fetch log, cache and status files.
\* A write that throws here leaves the try block: the later statements are
\* not reached and main's promise rejects.
MainFinish ==
  /\ runPc = "fetching"
  /\ Len(results) = Len(FetchOrder)
  /\ Persist(MergePosts(results, existingPosts),
             [k \in DOMAIN results |-> results[k].status])
  /\ UNCHANGED <<now, feeds, dbBlogs, existingPosts, existingCacheLastUpdated,
                 results, runs, idsBefore, observed, lastRun, between>>

StorePairs == {<<dbPosts[k].id, dbPosts[k].date>> : k \in DOMAIN dbPosts}
CachePairs == {<<cacheFile.posts[k].id, cacheFile.posts[k].date>> :
                 k \in DOMAIN cacheFile.posts}
AllOk == \A k \in DOMAIN results : results[k].status.status = "ok"

\* the end of the run: db.close() in main's finally block, then
\* process.exit(0) when main's promise resolved, process.exit(1) when it
\* rejected
Exit ==
  /\ runPc \in {"done", "failed"}
  /\ runPc' = "idle"
  /\ runs' = runs + 1
  /\ runLog' = [runLog EXCEPT !.exitCode = IF runPc = "done" THEN 0 ELSE 1]
  /\ lastRun' = IF runPc = "done"
                  THEN [valid |-> TRUE, allOk |-> AllOk, store |-> StorePairs,
                        cache |-> CachePairs]
                  ELSE [valid |-> FALSE, allOk |-> FALSE, store |-> {},
                        cache |-> {}]
  /\ between' = {}
  /\ existingPosts' = <<>>
  /\ existingCacheLastUpdated' = NoDate
  /\ results' = <<>>
  /\ allPosts' = <<>>
  /\ idsBefore' = {}
  /\ UNCHANGED <<now, feeds, dbBlogs, dbPosts, dbFetchLog, cacheFile,
                 statusFile, env, observed>>

\* scripts/export-cache.js: the cache and status files are rewritten from
\* the store
ExportCache ==
  /\ runPc = "idle"
  /\ runs >= 1
  /\ env.events < MaxEvents
  /\ env' = [env EXCEPT !.events = @ + 1]
  /\ cacheFile' = [exists |-> TRUE, lastUpdated |-> now,
                   posts |-> loadPosts(dbPosts)]
  /\ \E logs \in getLatestLogs(dbFetchLog) :
       statusFile' = [exists |-> TRUE,
                      lastUpdated |-> getLastUpdated(logs, now),
                      feeds |-> logs,
                      summary |-> Summary(logs)]
  /\ between' = between \cup {"export"}
  /\ UNCHANGED <<runPc, now, feeds, dbBlogs, dbPosts, dbFetchLog,
                 existingPosts, existingCacheLastUpdated, results, allPosts,
                 runs, idsBefore, observed, lastRun, runLog>>

\* time passes between two runs
TickRun ==
  /\ runPc = "idle"
  /\ runs >= 1
  /\ runs < MaxRuns
  /\ env.events < MaxEvents
  /\ now' = now + TickDays * MinutesPerDay
  /\ env' = [env EXCEPT !.events = @ + 1]
  /\ between' = between \cup {"tick"}
  /\ UNCHANGED <<runPc, feeds, dbBlogs, dbPosts, dbFetchLog, cacheFile,
                 statusFile, existingPosts, existingCacheLastUpdated, results,
                 allPosts, runs, idsBefore, observed, lastRun, runLog>>

\* between two runs the oldest item of a feed scrolls off it
FeedChange(id) ==
  /\ runPc = "idle"
  /\ runs >= 1
  /\ runs < MaxRuns
  /\ env.events < MaxEvents
  /\ Len(feeds[id].items) > 0
  /\ feeds' = [feeds EXCEPT ![id].items = SubSeq(@, 1, Len(@) - 1)]
  /\ env' = [env EXCEPT !.events = @ + 1]
  /\ between' = between \cup {"feed"}
  /\ UNCHANGED <<runPc, now, dbBlogs, dbPosts, dbFetchLog, cacheFile,
                 statusFile, existingPosts, existingCacheLastUpdated, results,
                 allPosts, runs, idsBefore, observed, lastRun, runLog>>

\* the next run starts from a checkout that holds the cache files but no
\* database file
DbLost ==
  /\ runPc = "idle"
  /\ runs >= 1
  /\ runs < MaxRuns
  /\ env.events < MaxEvents
  /\ Len(dbPosts) > 0 \/ Len(dbFetchLog) > 0
  /\ dbBlogs' = {}
  /\ dbPosts' = <<>>
  /\ dbFetchLog' = <<>>
  /\ env' = [env EXCEPT !.events = @ + 1]
  /\ between' = between \cup {"db"}
  /\ UNCHANGED <<runPc, now, feeds, cacheFile, statusFile, existingPosts,
                 existingCacheLastUpdated, results, allPosts, runs, idsBefore,
                 observed, lastRun, runLog>>

-----------------------------------------------------------------------------
(* One run of main from a store that earlier runs left (SpecStores).  The   *)
(* rows may stem from the earlier fetch script, which stored the link as    *)
(* the feed gave it and made the id from source, title and link.            *)

\* the rows a store holds at most before the run
MaxStoredRows == 2

StoredRow(id, link, title, date) ==
  [id |-> id, blog_id |-> Registry[1].id, title |-> title, link |-> link,
   date |-> date, excerpt |-> "", fetched_at |-> Day(90)]

\* a post under its first title and, fetched again, under a second one (the
\* earlier script's ids differ with the title), and a post as fetchFeed
\* stores it now
StoredRows ==
  { StoredRow(<<1>>, Url(HostA, NoYmd, "Aa"), "T1", Day(50)),
    StoredRow(<<2>>, Url(HostA, NoYmd, "Aa"), "T2", Day(51)),
    StoredRow(generatePostId(Registry[1].id,
                             UrlString(Url(HostA, NoYmd, "BB"))),
              Url(HostA, NoYmd, "BB"), "T3", Day(60)) }

\* table posts: the primary key is the id
Stores ==
  {t \in SeqsUpTo(StoredRows, MaxStoredRows) :
     \A i, j \in DOMAIN t : i # j => t[i].id # t[j].id}

\* before the run: a store of earlier runs, no cache files, feeds of at most
\* one item
InitStores ==
  /\ runPc = "idle"
  /\ now = FirstRunAt
  /\ feeds \in {f \in [RegistryIds -> Feeds] : TotalItems(f) <= 1}
  /\ dbBlogs = RegistryIds
  /\ dbPosts \in Stores
  /\ dbFetchLog = <<>>
  /\ cacheFile = NoCache
  /\ statusFile = NoStatusFile
  /\ existingPosts = <<>>
  /\ existingCacheLastUpdated = NoDate
  /\ results = <<>>
  /\ allPosts = <<>>
  /\ runs = MaxRuns - 1
  /\ env = [events |-> 0, failures |-> 0]
  /\ idsBefore = {}
  /\ observed = {}
  /\ lastRun = [valid |-> FALSE, allOk |-> FALSE, store |-> {}, cache |-> {}]
  /\ between = {}
  /\ runLog = NoRunLog

-----------------------------------------------------------------------------
(* Runs of main over a feed that its publisher edits (SpecEdits): the      *)
(* actions of a run are those of Spec; between two runs time passes or the *)
(* feed of the direct source comes to hold other items.  The writes of     *)
(* these runs succeed.                                                     *)

\* the items the edited feed carries: two items without link and guid that
\* differ in title and date; a post with a summary; the same post under
\* another title and without summary; an older post whose id collides with
\* it ("Aa" and "BB" hash alike)
EditItems ==
  { Item(NoUrl, "T1", Day(50)),
    Item(NoUrl, "T2", Day(51)),
    [Item(Url(HostA, NoYmd, "Aa"), "T1", Day(50)) EXCEPT !.snippet = "S1"],
    Item(Url(HostA, NoYmd, "Aa"), "T2", Day(50)),
    Item(Url(HostA, NoYmd, "BB"), "T3", Day(40)) }

EditFeeds == [items : SeqsUpTo(EditItems, MaxItems), lastBuildDate : {NoDate}]

NoFeed == [items |-> <<>>, lastBuildDate |-> NoDate]

\* before the first run: no database, no cache files; the direct source
\* publishes any of the items, the other source none
InitEdits ==
  /\ runPc = "idle"
  /\ now = FirstRunAt
  /\ feeds \in {[id \in RegistryIds |->
                   IF id = Registry[1].id THEN f ELSE NoFeed] : f \in EditFeeds}
  /\ dbBlogs = {}
  /\ dbPosts = <<>>
  /\ dbFetchLog = <<>>
  /\ cacheFile = NoCache
  /\ statusFile = NoStatusFile
  /\ existingPosts = <<>>
  /\ existingCacheLastUpdated = NoDate
  /\ results = <<>>
  /\ allPosts = <<>>
  /\ runs = 0
  /\ env = [events |-> 0, failures |-> MaxWriteFailures]
  /\ idsBefore = {}
  /\ observed = {}
  /\ lastRun = [valid |-> FALSE, allOk |-> FALSE, store |-> {}, cache |-> {}]
  /\ between = {}
  /\ runLog = NoRunLog

\* between two runs the publisher of the direct source changes its feed:
\* items are added, dropped, retitled
FeedEdit ==
  /\ runPc = "idle"
  /\ runs >= 1
  /\ runs < MaxRuns
  /\ env.events < MaxEvents
  /\ \E f \in EditFeeds :
       /\ f # feeds[Registry[1].id]
       /\ feeds' = [feeds EXCEPT ![Registry[1].id] = f]
  /\ env' = [env EXCEPT !.events = @ + 1]
  /\ between' = between \cup {"feed"}
  /\ UNCHANGED <<runPc, now, dbBlogs, dbPosts, dbFetchLog, cacheFile,
                 statusFile, existingPosts, existingCacheLastUpdated, results,
                 allPosts, runs, idsBefore, observed, lastRun, runLog>>

-----------------------------------------------------------------------------
(* One call of resolvePostDate (dates.js), on arguments of every kind.     *)

\* the largest feed index of the calls explored
MaxIndex == 2

\* the instants at which the resolver is called: 2024-04-10T00:00Z,
\* 2024-03-10T07:01Z, one minute after the clocks of New York went forward,
\* and 2024-03-08T07:01Z, two days before that
DateNows ==
  {Day(100), ZoneNewYork.transition + 1,
   ZoneNewYork.transition + 1 - MAX_FUTURE_DAYS * MinutesPerDay}

\* item.isoDate: missing, unparseable, two days old, seven and eight days
\* old, two and three days ahead of 2024-04-10
DatePrimaries == {NoDate, BadDate, Day(98), Day(93), Day(92), Day(102), Day(103)}

\* the date in the path of item.link: none, 2024-01-10, 2024-03-09 and
\* 2024-03-10 (30 and 29 days before 2024-04-08), 2024-04-13
DateYmds ==
  {NoYmd, [y |-> 2024, m |-> 1, d |-> 10], [y |-> 2024, m |-> 3, d |-> 9],
   [y |-> 2024, m |-> 3, d |-> 10], [y |-> 2024, m |-> 4, d |-> 13]}

\* existingPost?.date: none, unparseable, old, ahead
DateExistings == {NoDate, BadDate, Day(40), Day(103)}

\* feed.lastBuildDate: none, unparseable, a day before 2024-04-10, ahead,
\* and 2024-03-10T07:01Z
DateFeedDates ==
  {NoDate, BadDate, Day(99), Day(103), ZoneNewYork.transition + 1}

\* the hosts of item.link: the source's own and another
DateLinkHosts == {HostA, <<"c", "org">>}

DateInputs ==
  [isoDate : DatePrimaries, ymd : DateYmds, linkHost : DateLinkHosts,
   existingDate : DateExistings, lastBuildDate : DateFeedDates,
   ignoreLinkDateInference : BOOLEAN, allowLinkDateInference : BOOLEAN,
   allowMissingDates : BOOLEAN, index : 0..MaxIndex, nowMs : DateNows]

NoDateInput ==
  [isoDate |-> NoDate, ymd |-> NoYmd, linkHost |-> <<>>,
   existingDate |-> NoDate, lastBuildDate |-> NoDate,
   ignoreLinkDateInference |-> FALSE, allowLinkDateInference |-> FALSE,
   allowMissingDates |-> FALSE, index |-> 0, nowMs |-> 0]

ParkedDates ==
  /\ datePc = "parked"
  /\ dateIn = NoDateInput
  /\ dateOut = NoDate
  /\ tz = ZoneUTC

\* before the call: any arguments, in a process of either time zone
InitDates ==
  /\ datePc = "input"
  /\ dateIn \in DateInputs
  /\ dateOut = NoDate
  /\ tz \in {ZoneUTC, ZoneNewYork}

\* the item, feed and source a call is made with
DateItem == Item(Url(dateIn.linkHost, dateIn.ymd, "p"), "T", dateIn.isoDate)
DateFeed == [items |-> <<>>, lastBuildDate |-> dateIn.lastBuildDate]
DateBlog ==
  [id |-> "a", url |-> Url(HostA, NoYmd, ""), substack |-> FALSE,
   proxy |-> FALSE, allowMissingDates |-> dateIn.allowMissingDates,
   ignoreLinkDateInference |-> dateIn.ignoreLinkDateInference,
   allowLinkDateInference |-> dateIn.allowLinkDateInference, maxPosts |-> 0]

\* resolvePostDate(item, feed, blog, index, existingPost?.date, nowMs)
ResolveDate ==
  /\ datePc = "input"
  /\ dateOut' = resolvePostDate(DateItem, DateFeed, DateBlog, dateIn.index,
                                dateIn.existingDate, dateIn.nowMs)
  /\ datePc' = "resolved"
  /\ UNCHANGED <<dateIn, tz>>

-----------------------------------------------------------------------------
(* One call of normalizeUrl or of getPostKey (urls.js, dedupe.js), on      *)
(* arguments of every kind.                                                *)

\* the most query parameters and trailing slashes of the URLs explored
MaxParams == 3
MaxSlashes == 2

\* names of query parameters: ordinary ones, among them two that only
\* resemble tracking names, and tracking ones in either case
ParamNames ==
  {"keep", "utm", "refx", "utm_source", "UTM_Source", "utm_x", "ref", "Ref"}

\* absolute URLs: the root of a site or a page, with or without trailing
\* slashes, query parameters and a fragment
UrlInputs ==
  {[Url(HostA, NoYmd, slug) EXCEPT !.slashes = n, !.query = names, !.frag = f] :
     slug \in {"", "Aa"}, n \in 0..MaxSlashes,
     names \in SeqsUpTo(ParamNames, MaxParams), f \in BOOLEAN}

\* baseUrl: undefined, or the URL of a source
KeyBases == {NoUrl, Url(HostA, NoYmd, "")}

\* item.link: missing, blank, a relative reference, a page, the same page
\* with a trailing slash, a tracking parameter and a fragment
KeyLinks ==
  {NoUrl, PlainText(" "), PlainText("r"), Url(HostA, NoYmd, "Aa"),
   [Url(HostA, NoYmd, "Aa") EXCEPT !.slashes = 1, !.query = <<"utm_source">>,
                                   !.frag = TRUE]}

\* item.guid: missing, blank, an opaque text with and without blanks around
\* it, a URL with a trailing slash and a fragment
KeyGuids ==
  {NoUrl, PlainText(" "), PlainText("q"), PlainText(" q "),
   [Url(HostA, NoYmd, "BB") EXCEPT !.slashes = 1, !.frag = TRUE]}

\* item.title: missing, a title, a title with blanks around it
KeyTitles == {"", "T1", " q "}

KeyCalls ==
  [fn : {"normalizeUrl"}, link : UrlInputs \cup {PlainText("r"), PlainText(" ")},
   guid : {NoUrl}, title : {""}, baseUrl : KeyBases]
  \cup [fn : {"getPostKey"}, link : KeyLinks, guid : KeyGuids,
        title : KeyTitles, baseUrl : KeyBases]

NoKeyCall ==
  [fn |-> "", link |-> NoUrl, guid |-> NoUrl, title |-> "", baseUrl |-> NoUrl]

ParkedKeys ==
  /\ keyPc = "parked"
  /\ keyIn = NoKeyCall
  /\ urlOut = NoUrl
  /\ keyOut = <<>>

\* before the call: either function, any arguments
InitKeys ==
  /\ keyPc = "input"
  /\ keyIn \in KeyCalls
  /\ urlOut = NoUrl
  /\ keyOut = <<>>

\* normalizeUrl(rawUrl, baseUrl)
NormalizeUrlCall ==
  /\ keyPc = "input"
  /\ keyIn.fn = "normalizeUrl"
  /\ urlOut' = normalizeUrl(keyIn.link, keyIn.baseUrl)
  /\ keyPc' = "returned"
  /\ UNCHANGED <<keyIn, keyOut>>

\* getPostKey({link, guid, title, baseUrl})
GetPostKeyCall ==
  /\ keyPc = "input"
  /\ keyIn.fn = "getPostKey"
  /\ keyOut' = getPostKey(keyIn.link, keyIn.guid, keyIn.title, keyIn.baseUrl)
  /\ keyPc' = "returned"
  /\ UNCHANGED <<keyIn, urlOut>>

-----------------------------------------------------------------------------
(* The verifier (scripts/verify-cache.js, kept in                          *)
(* src/scripts/analyze-batch-5.js lines 43-178).  It reads blogs.json,     *)
(* cache/posts.json and cache/status.json and counts the posts of the      *)
(* store.  A run is one synchronous call of main followed by the exit of   *)
(* the process.  A text field is a string, "" when it is missing; a date   *)
(* field is an instant, BadDate when it is missing or does not parse.      *)

\* structural defects put into one input
MaxStructuralDefects == 1

StructuralDefects ==
  {"noPostsFile", "noStatusFile", "blogsUnreadable", "postsUnreadable",
   "statusUnreadable", "postsNotArray", "feedsNotArray",
   "postsBadLastUpdated", "statusBadLastUpdated", "postsEmpty", "feedsEmpty",
   "postNoId", "dupIds", "postNoBlogId", "postNoTitle", "postNoLink",
   "postBadDate", "unsorted", "feedNoBlogId", "dupFeedRow",
   "feedBadLastFetched", "totalWrong", "healthyWrong", "errorsWrong"}

SoftDefects ==
  {"weirdStatus", "feedCountMismatch", "staleLastUpdated", "dbBehind",
   "dbUnavailable"}

\* variations of the files that are no defect for the verifier
Variations == {"tiedDates"}

\* the subsets of S of at most k elements
RECURSIVE SubsetsUpTo(_, _)
SubsetsUpTo(S, k) ==
  IF k = 0 THEN {{}}
  ELSE LET smaller == SubsetsUpTo(S, k - 1)
       IN smaller \cup {X \cup {d} : X \in smaller, d \in S}

DefectSets ==
  {S \cup T \cup V :
     S \in SubsetsUpTo(StructuralDefects, MaxStructuralDefects),
     T \in SUBSET SoftDefects,
     V \in SUBSET Variations}

VPost(id, blogId, title, link, date) ==
  [id |-> id, blogId |-> blogId, title |-> title, link |-> link,
   date |-> date]

VFeed(blogId, status, lastFetched) ==
  [blogId |-> blogId, status |-> status, lastFetched |-> lastFetched]

\* posts.json as a run writes it, with the defects D
PostsCacheWith(D) ==
  LET first == VPost("p1", "a", "T1", "L1", Day(3))
      second ==
        VPost(IF "postNoId" \in D THEN ""
              ELSE IF "dupIds" \in D THEN "p1" ELSE "p2",
              IF "postNoBlogId" \in D THEN "" ELSE "b",
              IF "postNoTitle" \in D THEN "" ELSE "T2",
              IF "postNoLink" \in D THEN "" ELSE "L2",
              IF "postBadDate" \in D THEN BadDate
              ELSE IF "unsorted" \in D THEN Day(4)
              ELSE IF "tiedDates" \in D THEN Day(3) ELSE Day(2))
  IN [lastUpdated |-> IF "postsBadLastUpdated" \in D THEN BadDate
                      ELSE IF "staleLastUpdated" \in D THEN Day(3) - 61
                      ELSE Day(3),
      postsIsArray |-> "postsNotArray" \notin D,
      posts |-> IF "postsNotArray" \in D \/ "postsEmpty" \in D
                THEN <<>> ELSE <<first, second>>]

\* status.json as a run writes it, with the defects D
StatusCacheWith(D) ==
  LET first == VFeed("a", IF "weirdStatus" \in D THEN "paused" ELSE "ok",
                     Day(3))
      second ==
        VFeed(IF "feedNoBlogId" \in D THEN ""
              ELSE IF "dupFeedRow" \in D THEN "a" ELSE "b",
              "error",
              IF "feedBadLastFetched" \in D THEN BadDate ELSE Day(3))
      feedRows == IF "feedsNotArray" \in D \/ "feedsEmpty" \in D
               THEN <<>> ELSE <<first, second>>
      counted(s) == Cardinality({i \in 1..Len(feedRows) : feedRows[i].status = s})
  IN [lastUpdated |-> IF "statusBadLastUpdated" \in D THEN BadDate
                      ELSE Day(3),
      feedsIsArray |-> "feedsNotArray" \notin D,
      feeds |-> feedRows,
      summary |->
        [total |-> Len(feedRows) + (IF "totalWrong" \in D THEN 1 ELSE 0),
         healthy |-> counted("ok") + (IF "healthyWrong" \in D THEN 1 ELSE 0),
         errors |-> counted("error")
                    + (IF "errorsWrong" \in D THEN 1 ELSE 0)]]

\* everything one run of the verifier reads
ArtifactsWith(D) ==
  [postsExists |-> "noPostsFile" \notin D,
   statusExists |-> "noStatusFile" \notin D,
   blogsReadable |-> "blogsUnreadable" \notin D,
   postsReadable |-> "postsUnreadable" \notin D,
   statusReadable |-> "statusUnreadable" \notin D,
   blogsLength |-> IF "feedCountMismatch" \in D THEN 3 ELSE 2,
   postsCache |-> PostsCacheWith(D),
   statusCache |-> StatusCacheWith(D),
   dbOpens |-> "dbUnavailable" \notin D,
   dbPostCount |-> IF "dbBehind" \in D THEN 1 ELSE 2]

NoArtifacts == ArtifactsWith({})

\* process.exitCode is unset (0) until fail sets it
NoVerifyLog ==
  [fails |-> {}, warns |-> {}, exitCode |-> 0, uncaught |-> FALSE,
   exitStatus |-> 0 - 1]

fail(log, message) ==
  [log EXCEPT !.fails = @ \cup {message}, !.exitCode = 1]

warnAlsoFails(log, message) ==
  [log EXCEPT !.warns = @ \cup {message}, !.exitCode = 1]

warn(log, message) ==
  [log EXCEPT !.warns = @ \cup {message}]

failIf(cond, log, message) == IF cond THEN fail(log, message) ELSE log

warnIf(cond, log, message) == IF cond THEN warn(log, message) ELSE log

hasFailures(log) == log.exitCode # 0

isValidIsoDate(value) == value \notin {NoDate, BadDate}

\* a comparison that finds no date later than another
LaterParsedNever(a, b) == FALSE

\* a > b on two results of Date.parse: false when either is NaN
LaterParsed(a, b) == isValidIsoDate(a) /\ isValidIsoDate(b) /\ a > b

\* the loop over the posts, from post k on; it stops at a post without id
RECURSIVE CheckPosts(_, _, _, _, _)
CheckPosts(posts, k, seenIds, duplicateIds, log) ==
  IF k > Len(posts) THEN [log |-> log, duplicateIds |-> duplicateIds]
  ELSE LET post == posts[k] IN
    IF post.id = ""
    THEN [log |-> fail(log, "post without id"),
          duplicateIds |-> duplicateIds]
    ELSE
      LET l1 == failIf(post.blogId = "", log, "post missing blogId")
          l2 == failIf(post.title = "", l1, "post missing title")
          l3 == failIf(post.link = "", l2, "post missing link")
          l4 == failIf(~isValidIsoDate(post.date), l3,
                       "post has invalid date")
      IN CheckPosts(posts, k + 1, seenIds \cup {post.id},
                    IF post.id \in seenIds
                    THEN duplicateIds \cup {post.id} ELSE duplicateIds,
                    l4)

\* the loop over the status rows, from row k on
RECURSIVE CheckFeeds(_, _, _, _)
CheckFeeds(feedRows, k, feedBlogIds, log) ==
  IF k > Len(feedRows) THEN log
  ELSE LET feed == feedRows[k] IN
    IF feed.blogId = ""
    THEN CheckFeeds(feedRows, k + 1, feedBlogIds,
                    fail(log, "feed status row without blogId"))
    ELSE
      LET l1 == failIf(feed.blogId \in feedBlogIds, log,
                       "duplicate feed status row")
          l2 == warnIf(feed.status \notin {"ok", "error"}, l1,
                       "unexpected feed status")
          l3 == failIf(~isValidIsoDate(feed.lastFetched), l2,
                       "feed has invalid lastFetched")
      IN CheckFeeds(feedRows, k + 1, feedBlogIds \cup {feed.blogId}, l3)

\* main, from the checks of lastUpdated on: both arrays are there
CheckArrays(a, log) ==
  LET postsCache == a.postsCache
      statusCache == a.statusCache
      posts == postsCache.posts
      feedRows == statusCache.feeds
      summary == statusCache.summary
      l1 == failIf(~isValidIsoDate(postsCache.lastUpdated), log,
                   "posts.json lastUpdated is missing/invalid")
      l2 == failIf(~isValidIsoDate(statusCache.lastUpdated), l1,
                   "status.json lastUpdated is missing/invalid")
      l3 == failIf(Len(posts) = 0, l2, "posts cache is empty")
      l4 == failIf(Len(feedRows) = 0, l3, "status feedRows list is empty")
      looped == CheckPosts(posts, 1, {}, {}, l4)
      l5 == failIf(looped.duplicateIds # {}, looped.log,
                   "duplicate post ids")
      l6 == failIf(\E i \in 2..Len(posts) :
                     LaterParsed(posts[i].date, posts[i - 1].date),
                   l5, "posts cache is not sorted desc by date")
      l7 == CheckFeeds(feedRows, 1, {}, l6)
      healthy == Cardinality({i \in 1..Len(feedRows) : feedRows[i].status = "ok"})
      errors ==
        Cardinality({i \in 1..Len(feedRows) : feedRows[i].status = "error"})
      l8 == failIf(summary.total # Len(feedRows), l7, "summary.total")
      l9 == failIf(summary.healthy # healthy, l8, "summary.healthy")
      l10 == failIf(summary.errors # errors, l9, "summary.errors")
      l11 == warnIf(a.blogsLength # 0 /\ Len(feedRows) # a.blogsLength, l10,
                    "feed status count != configured blogs count")
      l12 == warnIf(/\ Len(posts) > 0
                    /\ posts[1].date \notin {NoDate, BadDate}
                    /\ isValidIsoDate(postsCache.lastUpdated)
                    /\ postsCache.lastUpdated + 60 < posts[1].date,
                    l11, "lastUpdated is older than newest post date")
  IN IF a.dbOpens
     THEN warnIf(a.dbPostCount < Len(posts), l12,
                 "SQLite posts count is less than cache posts count")
     ELSE warn(l12, "SQLite verification skipped")

\* main() of the verifier: the log when it returns or throws
main(a) ==
  IF ~a.postsExists THEN fail(NoVerifyLog, "missing posts cache")
  ELSE IF ~a.statusExists THEN fail(NoVerifyLog, "missing status cache")
  ELSE IF ~(a.blogsReadable /\ a.postsReadable /\ a.statusReadable)
  THEN [NoVerifyLog EXCEPT !.uncaught = TRUE]
  ELSE
    LET l1 == failIf(~a.postsCache.postsIsArray, NoVerifyLog,
                     "posts.json missing posts array")
        l2 == failIf(~a.statusCache.feedsIsArray, l1,
                     "status.json missing feedRows array")
    IN IF ~a.postsCache.postsIsArray \/ ~a.statusCache.feedsIsArray
       THEN l2
       ELSE CheckArrays(a, l2)

\* the status the process ends with: 1 on an uncaught exception, else
\* process.exitCode
ExitStatus(log) == IF log.uncaught THEN 1 ELSE log.exitCode

ParkedVerify ==
  /\ verifyPc = "parked"
  /\ defects = {}
  /\ artifacts = NoArtifacts
  /\ verifyLog = NoVerifyLog

\* before a run: files with any of the defects
InitVerify ==
  /\ verifyPc = "start"
  /\ defects \in DefectSets
  /\ artifacts = ArtifactsWith(defects)
  /\ verifyLog = NoVerifyLog

\* node scripts/verify-cache.js
VerifyMain ==
  /\ verifyPc = "start"
  /\ LET log == main(artifacts)
     IN verifyLog' = [log EXCEPT !.exitStatus = ExitStatus(log)]
  /\ verifyPc' = "exited"
  /\ UNCHANGED <<defects, artifacts>>

-----------------------------------------------------------------------------
(* The requests of the fetchFeed calls of a run (SpecCalls): main's        *)
(* scheduling as above, and inside each call the request for the feed, the  *)
(* fallback to the relay, and the page fetches of the item callbacks.       *)
(* A step is one turn of the event loop: a response arrives and everything  *)
(* that needs no further response runs.                                     *)

\* EXCERPT_CONCURRENCY in 1..MaxExcerptConcurrency, MAX_PAGE_EXCERPTS_PER_FEED
\* in 0..MaxPageExcerpts, feeds of at most MaxCallItems items
MaxExcerptConcurrency == 2
MaxPageExcerpts == 2
MaxCallItems == 2

\* parseEnvInt, parseEnvNonNegativeInt and parseEnvBool of the three settings
ExcerptConfigs ==
  [EXCERPT_CONCURRENCY : 1..MaxExcerptConcurrency,
   MAX_PAGE_EXCERPTS_PER_FEED : 0..MaxPageExcerpts,
   FETCH_PAGE_EXCERPTS : BOOLEAN]

\* an item as the excerpt code sees it: its feed content (none, blank,
\* a text) and the existing post under its lookup key (none, one without
\* excerpt, one with the excerpt E1)
CallItem(snippet, stored) == [snippet |-> snippet, stored |-> stored]

CallItems ==
  { CallItem("", "none"), CallItem(" ", "none"), CallItem("S1", "none"),
    CallItem("", "bare"), CallItem("", "kept"), CallItem("S1", "kept") }

\* the feeds the sources serve in a run: every source the same items
CallFeeds == SeqsUpTo(CallItems, MaxCallItems)

\* createExcerpt(content) for the contents of the model: a blank content
\* strips to the empty string, the text S1 is short and stays
createExcerpt(content) == trim(content)

\* coerceToString(existingPost?.excerpt).trim()
existingExcerpt(item) == IF item.stored = "kept" THEN "E1" ELSE ""

\* the excerpt before any page is fetched: the feed's content, else the
\* excerpt of the existing post
FeedOrStoredExcerpt(item) ==
  IF createExcerpt(item.snippet) # "" THEN createExcerpt(item.snippet)
  ELSE existingExcerpt(item)

\* the page-excerpt condition without !existingPost
NeedsPageAnyPost(item, index, cfg) ==
  /\ FeedOrStoredExcerpt(item) = ""
  /\ cfg.FETCH_PAGE_EXCERPTS
  /\ index < cfg.MAX_PAGE_EXCERPTS_PER_FEED

\* !excerpt && !existingPost && FETCH_PAGE_EXCERPTS && link &&
\* index < MAX_PAGE_EXCERPTS_PER_FEED (link is never empty: it falls back to
\* the url of the source)
NeedsPage(item, index, cfg) ==
  /\ FeedOrStoredExcerpt(item) = ""
  /\ item.stored = "none"
  /\ cfg.FETCH_PAGE_EXCERPTS
  /\ index < cfg.MAX_PAGE_EXCERPTS_PER_FEED

\* a fetchFeed call: where it stands (none / direct: parser.parseURL is
\* awaited / relay: fetchViaProxy is awaited / items: the item callbacks run
\* / settled: the result is ready / failed: the error result is ready /
\* returned), the inner mapWithLimit's nextIndex, the indexes whose
\* fetchPageExcerpt is awaited, the excerpts so far, and as history the
\* indexes a page was fetched for, what the pages gave, and whether the call
\* fell back to the relay
NoCall ==
  [pc |-> "none", next |-> 0, out |-> {}, excerpts |-> <<>>, scraped |-> {},
   pages |-> <<>>, fellBack |-> FALSE]

ParkedCalls ==
  /\ callConfig = [EXCERPT_CONCURRENCY |-> 1, MAX_PAGE_EXCERPTS_PER_FEED |-> 0,
                   FETCH_PAGE_EXCERPTS |-> FALSE]
  /\ callFeed = <<>>
  /\ feedCalls = <<>>

\* a run over two sources, none flagged "proxy": true, with the shortest
\* delay between batches
InitCalls ==
  /\ InitMain
  /\ Len(blogs) = 2
  /\ \A i \in DOMAIN blogs : ~blogs[i].proxy
  /\ config.SUBSTACK_BATCH_DELAY_MS = 1
  /\ callConfig \in ExcerptConfigs
  /\ callFeed \in CallFeeds
  /\ feedCalls = [i \in DOMAIN blogs |-> NoCall]

\* the inner pool's worker that takes the index a page is fetched for
TakePaged(c) ==
  [c EXCEPT !.next = c.next + 1, !.out = c.out \cup {c.next},
            !.scraped = c.scraped \cup {c.next}]

\* the inner pool's worker that takes the index of an item whose callback
\* awaits nothing
TakePlain(c, item) ==
  [c EXCEPT !.next = c.next + 1,
            !.excerpts[c.next + 1] = FeedOrStoredExcerpt(item)]

\* mapWithLimit(items, EXCERPT_CONCURRENCY, async (item, index) => ...):
\* every worker that awaits no page takes index nextIndex++ and calls the
\* item callback, which either awaits fetchPageExcerpt(link) or goes on to
\* its end; the workers that await a page are the busy ones
RECURSIVE RunWorkers(_, _, _)
RunWorkers(c, items, cfg) ==
  IF c.next >= Len(items) THEN c
  ELSE IF Cardinality(c.out) >= WorkerCount(cfg.EXCERPT_CONCURRENCY, Len(items))
    THEN c
  ELSE IF NeedsPage(items[c.next + 1], c.next, cfg)
    THEN RunWorkers(TakePaged(c), items, cfg)
    ELSE RunWorkers(TakePlain(c, items[c.next + 1]), items, cfg)

\* the callbacks have all ended: Promise.all(workers) resolves and fetchFeed
\* has its ok result
SettleIfDone(c, items) ==
  IF c.next >= Len(items) /\ c.out = {} THEN [c EXCEPT !.pc = "settled"] ELSE c

\* feed.items.slice(0, maxPosts) is handed to mapWithLimit
ItemsPhase(c, items, cfg) ==
  SettleIfDone(RunWorkers([c EXCEPT !.pc = "items",
                                    !.excerpts = [k \in 1..Len(items) |-> ""],
                                    !.pages = [k \in 1..Len(items) |-> ""]],
                          items, cfg),
               items)

\* the first parseFeed of a call: through the relay for a sensitive source
\* or when useProxy is set, else direct
StartCall(b, viaProxy) ==
  [NoCall EXCEPT !.pc = IF viaProxy \/ isSubstackFeed(b) \/ b.proxy
                          THEN "relay" ELSE "direct"]

\* what the scheduler's step does to the calls: the calls it makes start,
\* the call whose result it takes has returned
TrackCalls ==
  /\ feedCalls' = [i \in DOMAIN feedCalls |->
                 IF fetchCount'[i] > fetchCount[i]
                   THEN StartCall(blogs[i], calledViaProxy'[i])
                 ELSE IF finished'[i] # finished[i]
                   THEN [feedCalls[i] EXCEPT !.pc = "returned"]
                 ELSE feedCalls[i]]
  /\ UNCHANGED <<callConfig, callFeed>>

\* the status of the result a call returns
CallStatus(c) == IF c.pc = "settled" THEN "ok" ELSE "error"

CallReady(id) == feedCalls[id].pc \in {"settled", "failed"}

CallsStart == MapWithLimitStart /\ TrackCalls

\* the call of worker w returns its result to mapWithLimit
CallsWorkerResume(w) ==
  /\ mainPc = "pool"
  /\ w \in DOMAIN workerPc
  /\ workerPc[w] = "await"
  /\ CallReady(otherBlogs[workerIndex[w] + 1].id)
  /\ WorkerResume(w)
  /\ \A j \in DOMAIN otherResults :
       otherResults'[j] # otherResults[j] =>
         otherResults'[j].status = CallStatus(feedCalls[otherResults'[j].blogId])
  /\ TrackCalls

CallsPoolJoin == PoolJoin /\ TrackCalls

\* the call at position k of the batch returns its result to Promise.all
CallsBatchFetchDone(k) ==
  /\ mainPc = "batch"
  /\ k \in batchPending
  /\ CallReady(substackBlogs[k].id)
  /\ BatchFetchDone(k)
  /\ batchResults'[k].status = CallStatus(feedCalls[substackBlogs[k].id])
  /\ TrackCalls

CallsBatchJoin == BatchJoin /\ TrackCalls

CallsSleepWake == SleepWake /\ TrackCalls

\* time passes while main sleeps
CallsTick == mainPc = "sleep" /\ Tick /\ TrackCalls

CallsExit == PersistAndExit /\ TrackCalls

\* parser.parseURL(blog.feed) resolves, or rejects with an error that
\* shouldRetryViaProxy accepts (parseFeed(blog, true) is called) or with
\* another error (fetchFeed returns the error result)
DirectReturns(id) ==
  /\ id \in DOMAIN feedCalls
  /\ feedCalls[id].pc = "direct"
  /\ \E outcome \in {"ok", "retryable", "fatal"} :
       feedCalls' = [feedCalls EXCEPT ![id] =
                   CASE outcome = "ok" -> ItemsPhase(feedCalls[id], callFeed, callConfig)
                     [] outcome = "retryable" ->
                          [feedCalls[id] EXCEPT !.pc = "relay", !.fellBack = TRUE]
                     [] OTHER -> [feedCalls[id] EXCEPT !.pc = "failed"]]
  /\ UNCHANGED <<callConfig, callFeed>>

\* fetchViaProxy(blog.feed) returns the feed, which parses, or it throws
\* (its own retries make one request after the other)
RelayReturns(id) ==
  /\ id \in DOMAIN feedCalls
  /\ feedCalls[id].pc = "relay"
  /\ \E outcome \in FetchOutcomes :
       feedCalls' = [feedCalls EXCEPT ![id] =
                   IF outcome = "ok"
                     THEN ItemsPhase(feedCalls[id], callFeed, callConfig)
                     ELSE [feedCalls[id] EXCEPT !.pc = "failed"]]
  /\ UNCHANGED <<callConfig, callFeed>>

\* the callback of the item at index has its page text
PageTaken(c, index, text) ==
  [c EXCEPT !.out = c.out \ {index}, !.excerpts[index + 1] = text,
            !.pages[index + 1] = text]

\* fetchPageExcerpt(link) returns: the paragraph it found, or '' (no such
\* paragraph, a response that is not ok, any error); the callback ends and
\* its worker takes the next index
PageReturns(id, index) ==
  /\ id \in DOMAIN feedCalls
  /\ feedCalls[id].pc = "items"
  /\ index \in feedCalls[id].out
  /\ \E text \in {"", "P1"} :
       feedCalls' = [feedCalls EXCEPT ![id] =
                   SettleIfDone(RunWorkers(PageTaken(feedCalls[id], index, text),
                                           callFeed, callConfig),
                                callFeed)]
  /\ UNCHANGED <<callConfig, callFeed>>

-----------------------------------------------------------------------------
(* The specifications.                                                     *)

InitFetch ==
  InitFetchCall /\ ParkedSched /\ ParkedRun /\ ParkedDates /\ ParkedVerify
  /\ ParkedKeys /\ ParkedCalls

NextFetch ==
  \/ FetchFeedCall /\ UNCHANGED <<schedVars, runVars, dateVars, verifyVars, keyVars, callVars>>
  \/ ParseURLOk /\ UNCHANGED <<schedVars, runVars, dateVars, verifyVars, keyVars, callVars>>
  \/ ParseURLFail /\ UNCHANGED <<schedVars, runVars, dateVars, verifyVars, keyVars, callVars>>
  \/ ProxyResponse /\ UNCHANGED <<schedVars, runVars, dateVars, verifyVars, keyVars, callVars>>
  \/ SleepDone /\ UNCHANGED <<schedVars, runVars, dateVars, verifyVars, keyVars, callVars>>
  \/ ParseString /\ UNCHANGED <<schedVars, runVars, dateVars, verifyVars, keyVars, callVars>>

SpecFetch == InitFetch /\ [][NextFetch]_vars

InitSched ==
  InitMain /\ ParkedFetch /\ ParkedRun /\ ParkedDates /\ ParkedVerify
  /\ ParkedKeys /\ ParkedCalls

NextSched ==
  \/ MapWithLimitStart /\ UNCHANGED <<fetchVars, runVars, dateVars, verifyVars, keyVars, callVars>>
  \/ (\E w \in 1..(MaxBlogs + 1) : WorkerResume(w)) /\ UNCHANGED <<fetchVars, runVars, dateVars, verifyVars, keyVars, callVars>>
  \/ PoolJoin /\ UNCHANGED <<fetchVars, runVars, dateVars, verifyVars, keyVars, callVars>>
  \/ (\E k \in 1..MaxBlogs : BatchFetchDone(k)) /\ UNCHANGED <<fetchVars, runVars, dateVars, verifyVars, keyVars, callVars>>
  \/ BatchJoin /\ UNCHANGED <<fetchVars, runVars, dateVars, verifyVars, keyVars, callVars>>
  \/ SleepWake /\ UNCHANGED <<fetchVars, runVars, dateVars, verifyVars, keyVars, callVars>>
  \/ Tick /\ UNCHANGED <<fetchVars, runVars, dateVars, verifyVars, keyVars, callVars>>
  \/ PersistAndExit /\ UNCHANGED <<fetchVars, runVars, dateVars, verifyVars, keyVars, callVars>>

SpecSched == InitSched /\ [][NextSched]_vars

\* the event loop runs whatever is ready: a fetchFeed call that is awaited
\* returns, a timer that is due fires, time passes
LiveSched == InitSched /\ [][NextSched]_vars /\ WF_vars(NextSched)

Init ==
  InitRuns /\ ParkedFetch /\ ParkedSched /\ ParkedDates /\ ParkedVerify
  /\ ParkedKeys /\ ParkedCalls

Next ==
  \/ MainStart /\ UNCHANGED <<fetchVars, schedVars, dateVars, verifyVars, keyVars, callVars>>
  \/ FetchFeed /\ UNCHANGED <<fetchVars, schedVars, dateVars, verifyVars, keyVars, callVars>>
  \/ MainFinish /\ UNCHANGED <<fetchVars, schedVars, dateVars, verifyVars, keyVars, callVars>>
  \/ Exit /\ UNCHANGED <<fetchVars, schedVars, dateVars, verifyVars, keyVars, callVars>>
  \/ ExportCache /\ UNCHANGED <<fetchVars, schedVars, dateVars, verifyVars, keyVars, callVars>>
  \/ TickRun /\ UNCHANGED <<fetchVars, schedVars, dateVars, verifyVars, keyVars, callVars>>
  \/ (\E id \in RegistryIds : FeedChange(id)) /\ UNCHANGED <<fetchVars, schedVars, dateVars, verifyVars, keyVars, callVars>>
  \/ DbLost /\ UNCHANGED <<fetchVars, schedVars, dateVars, verifyVars, keyVars, callVars>>

Spec == Init /\ [][Next]_vars

InitEditRuns ==
  InitEdits /\ ParkedFetch /\ ParkedSched /\ ParkedDates /\ ParkedVerify
  /\ ParkedKeys /\ ParkedCalls

NextEdits ==
  \/ MainStart /\ UNCHANGED <<fetchVars, schedVars, dateVars, verifyVars, keyVars, callVars>>
  \/ FetchFeed /\ UNCHANGED <<fetchVars, schedVars, dateVars, verifyVars, keyVars, callVars>>
  \/ MainFinish /\ UNCHANGED <<fetchVars, schedVars, dateVars, verifyVars, keyVars, callVars>>
  \/ Exit /\ UNCHANGED <<fetchVars, schedVars, dateVars, verifyVars, keyVars, callVars>>
  \/ TickRun /\ UNCHANGED <<fetchVars, schedVars, dateVars, verifyVars, keyVars, callVars>>
  \/ FeedEdit /\ UNCHANGED <<fetchVars, schedVars, dateVars, verifyVars, keyVars, callVars>>

SpecEdits == InitEditRuns /\ [][NextEdits]_vars

InitDateCall ==
  InitDates /\ ParkedFetch /\ ParkedSched /\ ParkedRun /\ ParkedVerify
  /\ ParkedKeys /\ ParkedCalls

NextDates == ResolveDate /\ UNCHANGED <<fetchVars, schedVars, runVars, verifyVars, keyVars, callVars>>

SpecDates == InitDateCall /\ [][NextDates]_vars

InitVerifyRun ==
  InitVerify /\ ParkedFetch /\ ParkedSched /\ ParkedRun /\ ParkedDates
  /\ ParkedKeys /\ ParkedCalls

NextVerify ==
  VerifyMain /\ UNCHANGED <<fetchVars, schedVars, runVars, dateVars, keyVars, callVars>>

SpecVerify == InitVerifyRun /\ [][NextVerify]_vars

InitKeyCall ==
  InitKeys /\ ParkedFetch /\ ParkedSched /\ ParkedRun /\ ParkedDates
  /\ ParkedVerify /\ ParkedCalls

NextKeys ==
  \/ NormalizeUrlCall /\ UNCHANGED <<fetchVars, schedVars, runVars, dateVars, verifyVars, callVars>>
  \/ GetPostKeyCall /\ UNCHANGED <<fetchVars, schedVars, runVars, dateVars, verifyVars, callVars>>

SpecKeys == InitKeyCall /\ [][NextKeys]_vars

InitCallsRun ==
  InitCalls /\ ParkedFetch /\ ParkedRun /\ ParkedDates /\ ParkedVerify
  /\ ParkedKeys

NextCalls ==
  \/ CallsStart /\ UNCHANGED <<fetchVars, runVars, dateVars, verifyVars, keyVars>>
  \/ (\E w \in 1..(MaxBlogs + 1) : CallsWorkerResume(w)) /\ UNCHANGED <<fetchVars, runVars, dateVars, verifyVars, keyVars>>
  \/ CallsPoolJoin /\ UNCHANGED <<fetchVars, runVars, dateVars, verifyVars, keyVars>>
  \/ (\E k \in 1..MaxBlogs : CallsBatchFetchDone(k)) /\ UNCHANGED <<fetchVars, runVars, dateVars, verifyVars, keyVars>>
  \/ CallsBatchJoin /\ UNCHANGED <<fetchVars, runVars, dateVars, verifyVars, keyVars>>
  \/ CallsSleepWake /\ UNCHANGED <<fetchVars, runVars, dateVars, verifyVars, keyVars>>
  \/ CallsTick /\ UNCHANGED <<fetchVars, runVars, dateVars, verifyVars, keyVars>>
  \/ CallsExit /\ UNCHANGED <<fetchVars, runVars, dateVars, verifyVars, keyVars>>
  \/ (\E id \in 1..MaxBlogs : DirectReturns(id)) /\ UNCHANGED <<fetchVars, schedVars, runVars, dateVars, verifyVars, keyVars>>
  \/ (\E id \in 1..MaxBlogs : RelayReturns(id)) /\ UNCHANGED <<fetchVars, schedVars, runVars, dateVars, verifyVars, keyVars>>
  \/ (\E id \in 1..MaxBlogs, index \in 0..(MaxCallItems - 1) : PageReturns(id, index)) /\ UNCHANGED <<fetchVars, schedVars, runVars, dateVars, verifyVars, keyVars>>

SpecCalls == InitCallsRun /\ [][NextCalls]_vars

InitStoreRun ==
  InitStores /\ ParkedFetch /\ ParkedSched /\ ParkedDates /\ ParkedVerify
  /\ ParkedKeys /\ ParkedCalls

NextStores ==
  \/ MainStart /\ UNCHANGED <<fetchVars, schedVars, dateVars, verifyVars, keyVars, callVars>>
  \/ FetchFeed /\ UNCHANGED <<fetchVars, schedVars, dateVars, verifyVars, keyVars, callVars>>
  \/ MainFinish /\ UNCHANGED <<fetchVars, schedVars, dateVars, verifyVars, keyVars, callVars>>
  \/ Exit /\ UNCHANGED <<fetchVars, schedVars, dateVars, verifyVars, keyVars, callVars>>
  \/ ExportCache /\ UNCHANGED <<fetchVars, schedVars, dateVars, verifyVars, keyVars, callVars>>

SpecStores == InitStoreRun /\ [][NextStores]_vars

-----------------------------------------------------------------------------
(* Properties of one fetchFeed call (SpecFetch).                           *)

\* the blocking class as C8 words it: status 401/403/408/425/429/5xx, or a
\* timeout- or reset-class network error
\* (the status of a failure being its status property or, when it has none,
\* the code its message "Status code N" names)
ClaimedStatus(e) ==
  IF e.status # 0 THEN e.status
  ELSE CASE e.msg = "Status code 403" -> 403
         [] e.msg = "Status code 404" -> 404
         [] e.msg = "Status code 503" -> 503
         [] OTHER -> 0

ClaimedBlocking(e) ==
  \/ ClaimedStatus(e) \in {401, 403, 408, 425, 429}
  \/ ClaimedStatus(e) >= 500 /\ ClaimedStatus(e) <= 599
  \/ e.msg \in {"Request timed out after 30000ms", "read ECONNRESET"}

\* the class the code falls back on: a status property among 401, 403, 408,
\* 425, 429, 500, 502, 503, 504, or a message that names status code
\* 401/403/429, a timeout, a connection reset or a failed name lookup
FallbackClass(e) ==
  \/ e.status \in {401, 403, 408, 425, 429, 500, 502, 503, 504}
  \/ e.msg \in {"Status code 403", "Request timed out after 30000ms",
                "read ECONNRESET", "getaddrinfo ENOTFOUND example.com"}

FallbackOnceFor(inClass) ==
  directError # NoError =>
    IF inClass
      THEN /\ relayCalls = 1
           /\ (proxyOutcome = "threw" => fetchStatus = "error")
      ELSE /\ relayCalls = 0
           /\ fetchPc = "returned"
           /\ fetchStatus = "error"

\* C8 as stated: a direct fetch failing with status 401/403/408/425/429/5xx
\* or a timeout/reset-class error is followed by exactly one relay fetch (and
\* ends in error if that fails too); any other direct failure ends in status
\* error with no relay fetch.
C8_FallbackOnce_AsClaimed == FallbackOnceFor(ClaimedBlocking(directError))

\* C8 amended: the same, for the class the code tests: status property in
\* {401,403,408,425,429,500,502,503,504} (not every 5xx), or a message naming
\* status code 401/403/429, a timeout, ECONNRESET, EAI_AGAIN or ENOTFOUND.
C8_FallbackOnce == FallbackOnceFor(FallbackClass(directError))

\* a direct fetch failed with a blocking error, the one relay fetch failed
\* too and the source ended in error
C8_Witness ==
  /\ fetchPc = "returned"
  /\ directError # NoError
  /\ FallbackClass(directError)
  /\ relayCalls = 1
  /\ proxyOutcome = "threw"
  /\ fetchStatus = "error"

\* C9: a fetchViaProxy call sends at most `retries` requests and ends either
\* by returning the body of a success response or by throwing an error.
C9_RelayBounded ==
  /\ requests <= Retries
  /\ attempt <= Retries
  /\ (relayCalls > 0 /\ fetchPc \in {"parseString", "returned"}
        => \/ proxyOutcome = "returned" /\ thrown = NoError
           \/ proxyOutcome = "threw" /\ thrown # NoError)

\* a call that used its whole budget and threw
C9_Witness ==
  /\ fetchPc = "returned"
  /\ requests = Retries
  /\ proxyOutcome = "threw"
  /\ Len(waits) = Retries - 1

\* C10 as stated: within one fetchViaProxy call every wait is strictly longer
\* than the wait before it, whatever the retryable outcomes were.
C10_BackoffEscalates_AsClaimed ==
  \A i \in 1..(Len(waits) - 1) : waits[i].ms < waits[i + 1].ms

\* C10 amended: the waits after blocked (403) responses escalate: each is
\* attempt * 5000 ms, strictly longer than every earlier wait after a blocked
\* response of the call; a wait after a timeout is always 2000 ms.
C10_BackoffEscalates ==
  /\ \A i, j \in 1..Len(waits) :
       i < j /\ waits[i].cause = "blocked" /\ waits[j].cause = "blocked"
         => waits[i].ms < waits[j].ms
  /\ \A i \in 1..Len(waits) :
       /\ waits[i].cause = "blocked" => waits[i].ms = i * BackoffStepMs
       /\ waits[i].cause = "timeout" => waits[i].ms = TimeoutSleepMs

\* two retries after blocked responses in one call
C10_Witness ==
  /\ Len(waits) = 2
  /\ waits[1].cause = "blocked"
  /\ waits[2].cause = "blocked"
  /\ requests = 3

\* the request timed out
TimedOut(r) == r.kind = "throw" /\ r.err.name = "TimeoutError"

\* the connection was reset, before the response or within its body
ConnectionReset(r) ==
  r.kind \in {"throw", "bodythrow"} /\ r.err.name = "TypeError"

\* the request threw an error that is named TimeoutError or has timeout in
\* its message
TimeoutNamedOrWorded(r) ==
  r.kind \in {"throw", "bodythrow"}
  /\ \/ r.err.name = "TimeoutError"
     \/ r.err.msg = "The operation was aborted due to timeout"

\* the fetchViaProxy call ended with its i-th request
EndedAt(i) == Len(responses) = i /\ fetchPc \in {"parseString", "returned"}

\* C24 as stated: a request that timed out and one whose connection was
\* reset are both followed by another request while attempts remain
C24_RetryableErrors_AsClaimed ==
  \A i \in 1..Len(responses) :
    (TimedOut(responses[i]) \/ ConnectionReset(responses[i])) /\ i < Retries
      => ~EndedAt(i)

\* C24: an error thrown by a relay request that is named TimeoutError or
\* has timeout in its message is followed by another request while attempts
\* remain, and is the terminal failure of the source when it comes with the
\* last attempt; of the errors a request throws only those are retried: any
\* other, a reset connection among them, ends the call at once and is the
\* failure of the source.
C24_RetryableErrors ==
  \A i \in 1..Len(responses) :
    LET r == responses[i]
    IN /\ TimeoutNamedOrWorded(r) /\ i < Retries => ~EndedAt(i)
       /\ TimeoutNamedOrWorded(r) /\ i = Retries /\ fetchPc = "returned"
            => proxyOutcome = "threw" /\ thrown = r.err /\ fetchStatus = "error"
       /\ r.kind \in {"throw", "bodythrow"} /\ ~TimeoutNamedOrWorded(r)
            => /\ Len(responses) = i
               /\ requests = i
               /\ fetchPc = "returned"
               /\ proxyOutcome = "threw"
               /\ thrown = r.err
               /\ fetchStatus = "error"

\* three requests of one call timed out and the source ended in error
C24_Witness ==
  /\ fetchPc = "returned"
  /\ Len(responses) = Retries
  /\ \A i \in 1..Retries : TimedOut(responses[i])
  /\ proxyOutcome = "threw"
  /\ fetchStatus = "error"

\* the status code a message of the form Proxy returned <status>: <text>
\* carries
StatusInMessage(msg) ==
  CASE msg = "Proxy returned 403: Failed to fetch RSS feed" -> 403
    [] msg = "Proxy returned 500: RSS fetch failed" -> 500
    [] msg = "Proxy returned 504: upstream timeout" -> 504
    [] OTHER -> 0

\* C25: a 403 response of the relay is followed by another request while
\* attempts remain; any other non-success response ends the fetchViaProxy
\* call with that attempt, by an error that carries the status of the
\* response.
C25_Classification ==
  \A i \in 1..Len(responses) :
    LET r == responses[i]
    IN /\ r.kind = "status" /\ r.status = 403 /\ i < Retries => ~EndedAt(i)
       /\ r.kind = "status" /\ r.status # 403
            => /\ Len(responses) = i
               /\ requests = i
               /\ fetchPc = "returned"
               /\ proxyOutcome = "threw"
               /\ StatusInMessage(thrown.msg) = r.status

\* C20: a source whose feed URL is on substack.com or that sets
\* "proxy": true is never fetched with parser.parseURL: a fetchFeed call for
\* it makes no direct fetch and goes to the relay at once.
C20_SensitiveViaRelay ==
  (blog.substack \/ blog.proxy) =>
    /\ directCalls = 0
    /\ fetchPc \notin {"idle", "parked"} => relayCalls = 1

\* a fetchFeed call for a source flagged "proxy": true returned ok, and one
\* for a source on substack.com returned an error, each after one
\* fetchViaProxy call and no direct fetch
C20_Witness ==
  /\ fetchPc = "returned"
  /\ relayCalls = 1
  /\ directCalls = 0
  /\ \/ blog.proxy /\ fetchStatus = "ok"
     \/ blog.substack /\ fetchStatus = "error"

-----------------------------------------------------------------------------
(* Properties of main's scheduling (SpecSched).                            *)

BlogIds == 1..Len(blogs)
DirectIds == {i \in BlogIds : ~blogs[i].substack /\ ~blogs[i].proxy}
SensitiveIds == {i \in BlogIds : blogs[i].substack \/ blogs[i].proxy}
InFlight == {i \in BlogIds : started[i] # -1 /\ finished[i] = -1}

\* C6: while the direct sources are fetched with mapWithLimit at most
\* FEED_CONCURRENCY direct fetches are in flight, every direct source is
\* fetched exactly once, and result i belongs to source i whatever the
\* completion order.
C6_DirectPool ==
  /\ Cardinality(InFlight \cap DirectIds) <= config.FEED_CONCURRENCY
  /\ \A i \in DirectIds : fetchCount[i] <= 1
  /\ \A k \in DOMAIN otherResults :
       otherResults[k] # NoResult =>
         /\ otherResults[k].blogId = otherBlogs[k].id
         /\ finished[otherBlogs[k].id] # -1
  /\ mainPc \in {"batch", "sleep", "persist"} =>
       /\ Len(otherResults) = Cardinality(DirectIds)
       /\ \A i \in DirectIds : fetchCount[i] = 1
       /\ \A k \in DOMAIN otherResults : otherResults[k].status \in FetchOutcomes

\* the pool is full, and the second source has finished before the first
C6_Witness ==
  /\ mainPc = "pool"
  /\ Cardinality(DirectIds) = 3
  /\ config.FEED_CONCURRENCY = 2
  /\ Cardinality(InFlight \cap DirectIds) = 2
  /\ otherResults[2] # NoResult
  /\ otherResults[1] = NoResult

\* number of batches of n sources in batches of size
NumBatches(n, size) == (n + size - 1) \div size

SourcePosts(id) ==
  << [id |-> <<id, 1>>, blogId |-> id, title |-> "T1",
      link |-> Url(HostA, NoYmd, "Aa"), date |-> Day(50), excerpt |-> ""],
     [id |-> <<id, 2>>, blogId |-> id, title |-> "T4",
      link |-> Url(HostA, NoYmd, "q"), date |-> Day(60 + id), excerpt |-> ""] >>

\* the merged post list main computes from the results rs, the store empty
MergedOf(rs) ==
  MergePosts([k \in DOMAIN rs |->
                [posts |-> IF rs[k].status = "ok" THEN SourcePosts(rs[k].blogId)
                           ELSE <<>>]],
             <<>>)

\* the outcome of the fetch of source id, wherever its result stands
OutcomeOf(rs, id) ==
  IF \E k \in DOMAIN rs : rs[k].blogId = id /\ rs[k].status = "ok"
    THEN "ok" ELSE "error"

\* the results in the order of the registry: direct sources, then sensitive
ByRegistryOrder(rs) ==
  LET order == otherBlogs \o substackBlogs
  IN [j \in DOMAIN order |->
        [blogId |-> order[j].id, status |-> OutcomeOf(rs, order[j].id)]]

\* C12: when main has all results, the merged post list is the one the
\* per-source outcomes give in registry order, whatever the order in which
\* the concurrent fetches returned, and no post of it is dated later than
\* the post before it.
C12_OrderIndependent ==
  mainPc = "persist" =>
    LET rs == otherResults \o substackResults
        merged == MergedOf(rs)
    IN /\ merged = MergedOf(ByRegistryOrder(rs))
       /\ \A k \in 1..(Len(merged) - 1) : merged[k].date >= merged[k + 1].date

\* three direct sources were fetched two at a time, a later one returned
\* before an earlier one, all succeeded, and main has the merged list
C12_Witness ==
  /\ mainPc = "persist"
  /\ overtaken
  /\ Len(otherResults) = 3
  /\ \A k \in DOMAIN otherResults : otherResults[k].status = "ok"
  /\ Len(MergedOf(otherResults \o substackResults)) = 6

\* the sources of the two lists main fetches
OtherIdSet == {otherBlogs[k].id : k \in DOMAIN otherBlogs}
SubstackIdSet == {substackBlogs[k].id : k \in DOMAIN substackBlogs}

\* C21: the direct and the sensitive list are disjoint and together hold
\* every source of the registry, and when the fetches are over main has
\* exactly one result for each source, each with a status, so the status
\* list of the run has one row per source.
C21_OneResultPerSource ==
  /\ mainPc # "parked" =>
       /\ OtherIdSet \cap SubstackIdSet = {}
       /\ OtherIdSet \cup SubstackIdSet = BlogIds
       /\ Len(otherBlogs) + Len(substackBlogs) = Len(blogs)
  /\ mainPc \in {"persist", "exited"} =>
       LET rs == otherResults \o substackResults
       IN /\ Len(rs) = Len(blogs)
          /\ \A i \in BlogIds :
               Cardinality({k \in DOMAIN rs : rs[k].blogId = i}) = 1
          /\ \A k \in DOMAIN rs : rs[k].status \in FetchOutcomes

\* a registry with a plain source, a substack source and a flagged source:
\* main has three results, one of them an error
C21_Witness ==
  /\ mainPc = "persist"
  /\ Len(blogs) = 3
  /\ Len(otherBlogs) = 1
  /\ \E i \in BlogIds : blogs[i].proxy /\ ~blogs[i].substack
  /\ \E i \in BlogIds : blogs[i].substack /\ ~blogs[i].proxy
  /\ Len(otherResults \o substackResults) = 3
  /\ \E k \in DOMAIN substackResults : substackResults[k].status = "error"

-----------------------------------------------------------------------------
(* Properties of the runs (Spec).                                          *)

StoreIds == {dbPosts[r].id : r \in DOMAIN dbPosts}
ResultIdx == DOMAIN results

\* C1: in every run, whatever subset of the sources fails, a failed source
\* yields an error-status result with zero posts and only a failed source
\* does; every post of every other source appears in the merged output; and
\* the run completes: the posts are in the store, a fetch-log row is written
\* for every source, and the cache and status files are written.
C1_FaultIsolation ==
  /\ \A k \in ResultIdx :
       /\ results[k].status.blogId = FetchOrder[k].id
       /\ results[k].status.status = "error" =>
            results[k].posts = <<>> /\ results[k].status.postCount = 0
       /\ results[k].status.status = "ok" =>
            results[k].status.postCount = Len(results[k].posts)
  /\ runPc = "done" =>
       /\ Len(results) = Len(FetchOrder)
       /\ \A k \in ResultIdx : \A j \in DOMAIN results[k].posts :
            \E m \in DOMAIN allPosts :
              /\ allPosts[m].blogId = FetchOrder[k].id
              /\ allPosts[m].id = results[k].posts[j].id
       /\ \A m \in DOMAIN allPosts : allPosts[m].id \in StoreIds
       /\ Len(dbFetchLog) >= Len(FetchOrder)
       /\ \A k \in ResultIdx :
            LET row == dbFetchLog[Len(dbFetchLog) - Len(results) + k]
            IN row.blog_id = FetchOrder[k].id /\ row.status = results[k].status.status
       /\ cacheFile.exists
       /\ Len(allPosts) > 0 => cacheFile.posts = allPosts
       /\ statusFile.exists
       /\ statusFile.summary.errors =
            Cardinality({k \in ResultIdx : results[k].status.status = "error"})

\* a run completed although the first source failed; the second source's
\* posts are in the merged output, next to the failed source's posts of an
\* earlier run
C1_Witness ==
  /\ runPc = "done"
  /\ results[1].status.status = "error"
  /\ results[2].status.status = "ok"
  /\ Len(results[2].posts) = 2
  /\ \E m \in DOMAIN allPosts : allPosts[m].blogId = FetchOrder[1].id

\* C2 (as stated): when two successive runs see the same feeds and no fetch
\* fails, with only time passing between them, the (id, date) pairs of the
\* store and of the cache after the second run are those after the first.
C2_Idempotent_AsClaimed ==
  (runPc = "done" /\ lastRun.valid /\ lastRun.allOk /\ AllOk
     /\ between \subseteq {"tick"}) =>
    /\ StorePairs = lastRun.store
    /\ CachePairs = lastRun.cache

\* C3: every post id in the posts table when a run starts is in the table
\* for the rest of the run and after it, whatever the sources do.
C3_StoreAdditive ==
  runPc \in {"fetching", "done", "failed"} => idsBefore \subseteq StoreIds

\* a run ended in which every source failed, and another in which a source
\* succeeded without listing a post the table held
C3_Witness ==
  /\ runPc = "done"
  /\ idsBefore # {}
  /\ results[1].status.status = "ok"
  /\ results[2].status.status = "error"
  /\ \E id \in idsBefore :
       \A k \in ResultIdx : \A j \in DOMAIN results[k].posts :
         results[k].posts[j].id # id

\* pairs of items of one fetched feed with the same canonical link:
\* <<k, i, j>> for items i < j of the source of result k
SameCanonicalPairs ==
  {t \in ResultIdx \X (1..MaxItems + 1) \X (1..MaxItems + 1) :
     LET b == FetchOrder[t[1]]
         items == feeds[b.id].items
     IN /\ results[t[1]].status.status = "ok"
        /\ t[2] < t[3]
        /\ t[3] <= Len(items)
        /\ t[3] <= getMaxPostsForBlog(b)
        /\ normalizeUrl(ItemLink(items[t[2]], b), b.url)
             = normalizeUrl(ItemLink(items[t[3]], b), b.url)}

\* the lookup key of the first item of such a pair
PairKey(t) ==
  LET b == FetchOrder[t[1]]
  IN <<b.id, ItemPostKey(feeds[b.id].items[t[2]], t[2] - 1, b)>>

\* the ids under which fetchFeed returned posts for the pair
PairIds(t) ==
  {results[t[1]].posts[j].id : j \in
     {j \in DOMAIN results[t[1]].posts :
        <<results[t[1]].posts[j].blogId,
          getPostKey(results[t[1]].posts[j].link, NoUrl,
                     results[t[1]].posts[j].title, NoUrl)>> = PairKey(t)}}

\* the posts of the merged list for the pair
MergedFor(t) ==
  {m \in DOMAIN allPosts :
     <<allPosts[m].blogId,
       getPostKey(allPosts[m].link, NoUrl, allPosts[m].title, NoUrl)>> = PairKey(t)}

\* the rows of the store for the pair
StoredFor(t) == {r \in DOMAIN dbPosts : dbPosts[r].id \in PairIds(t)}

\* C4 (as stated): two items of a source that normalize to the same
\* canonical link leave exactly one post in the merged list and in the store.
C4_Dedup_AsClaimed ==
  runPc = "done" =>
    \A t \in SameCanonicalPairs :
      Cardinality(MergedFor(t)) = 1 /\ Cardinality(StoredFor(t)) = 1

\* C4 (amended): two such items get one lookup key and one id, and leave at
\* most one post in the merged list and in the store: exactly one when
\* fetchFeed retains at least one of them, that is when a date resolves.
C4_Dedup ==
  runPc = "done" =>
    \A t \in SameCanonicalPairs :
      /\ Cardinality(PairIds(t)) <= 1
      /\ Cardinality(MergedFor(t)) <= 1
      /\ Cardinality(StoredFor(t)) <= 1
      /\ PairIds(t) # {} =>
           Cardinality(MergedFor(t)) = 1 /\ Cardinality(StoredFor(t)) = 1

\* both items of such a pair were retained and one post stands for them
C4_Witness ==
  /\ runPc = "done"
  /\ \E t \in SameCanonicalPairs :
       /\ Len(results[t[1]].posts) = 2
       /\ Cardinality(MergedFor(t)) = 1
       /\ feeds[FetchOrder[t[1]].id].items[t[2]].link
            # feeds[FetchOrder[t[1]].id].items[t[3]].link

\* C5: the id of a post is a function of its source and identity key over
\* all runs: whenever fetchFeed returns a post for a (source, key) it has
\* the id of the first post returned for that (source, key), and after the
\* run the post is in the store under that id.
C5_IdStable ==
  /\ \A x, y \in observed :
       x.blogId = y.blogId /\ x.key = y.key => x.id = y.id
  /\ runPc = "done" =>
       \A k \in ResultIdx : \A j \in DOMAIN results[k].posts :
         /\ results[k].posts[j].id \in StoreIds
         /\ [blogId |-> results[k].posts[j].blogId,
             key |-> <<results[k].posts[j].blogId,
                       getPostKey(results[k].posts[j].link, NoUrl,
                                  results[k].posts[j].title, NoUrl)>>,
             id |-> results[k].posts[j].id] \in observed

\* a later run, after time has passed, returned a post of an earlier run
\* under the id the table already held
C5_Witness ==
  /\ runPc = "done"
  /\ "tick" \in between
  /\ \E k \in ResultIdx : \E j \in DOMAIN results[k].posts :
       results[k].posts[j].id \in idsBefore

\* C11 (as stated): in a run in which a write of posts or of fetch-log rows
\* to the store failed, the seeding writes included, neither posts.json nor
\* status.json is written and the process exits with a non-zero status.
C11_WriteFailureFatal_AsClaimed ==
  (runLog.exitCode # -1
     /\ runLog.failed \cap {"seedPosts", "seedLogs", "posts", "logs"} # {}) =>
    /\ runLog.wrote = {}
    /\ runLog.exitCode # 0

\* C13 (as stated): in the exported post list each post's date is later
\* than the date of the post that follows it.
C13_StrictlySorted_AsClaimed ==
  cacheFile.exists =>
    \A k \in 1..(Len(cacheFile.posts) - 1) :
      cacheFile.posts[k].date > cacheFile.posts[k + 1].date

\* C13 (amended): after every run that wrote the files and after every
\* export, no post of the exported list has a date later than the date of
\* the post before it; posts of equal date stand next to each other.
C13_SortedDesc ==
  cacheFile.exists =>
    \A k \in 1..(Len(cacheFile.posts) - 1) :
      cacheFile.posts[k].date >= cacheFile.posts[k + 1].date

\* a run wrote a list of three posts in which two posts have the same date
\* and one is older
C13_Witness ==
  /\ runPc = "done"
  /\ Len(cacheFile.posts) = 3
  /\ cacheFile.posts[1].date = cacheFile.posts[2].date
  /\ cacheFile.posts[2].date > cacheFile.posts[3].date

\* C14 (as stated): after a run that wrote the files, no two posts of the
\* exported list have the same id.
C14_UniqueIds_AsClaimed ==
  runPc = "done" =>
    \A j, k \in DOMAIN cacheFile.posts :
      j # k => cacheFile.posts[j].id # cacheFile.posts[k].id

\* the rows of a status file with a given status, counted from the file
RowsWithStatus(st) ==
  Cardinality({k \in DOMAIN statusFile.feeds : statusFile.feeds[k].status = st})

\* C15: in every status file the fetcher or the exporter wrote,
\* summary.total is the number of rows of feeds, summary.healthy the number
\* of rows with status ok and summary.errors the number with status error.
C15_SummaryCounts ==
  statusFile.exists =>
    /\ statusFile.summary.total = Len(statusFile.feeds)
    /\ statusFile.summary.healthy = RowsWithStatus("ok")
    /\ statusFile.summary.errors = RowsWithStatus("error")

\* the exporter wrote a status file with one healthy and one failed source
C15_Witness ==
  /\ "export" \in between
  /\ statusFile.summary = [total |-> 2, healthy |-> 1, errors |-> 1]

\* an instant that is present and not more than MAX_FUTURE_DAYS ahead
UsableDate(d, nowMs) ==
  d # NoDate /\ d - nowMs <= MAX_FUTURE_DAYS * MinutesPerDay

\* item i (1-based) of the feed of source b has a usable primary, inferred
\* or existing date
HasUsableDate(b, i) ==
  LET item == feeds[b.id].items[i]
      key == makeLookupKey(b.id, ItemPostKey(item, i - 1, b))
      existing == ExistingPostFor(existingPosts, key).date
      inferred == IF shouldInferDateFromLink(b, item.link, item.guid)
                    THEN IF inferDateFromText(item.link) # NoDate
                           THEN inferDateFromText(item.link)
                           ELSE inferDateFromText(item.guid)
                    ELSE NoDate
  IN \/ UsableDate(normalizeDate(item.isoDate), now)
     \/ UsableDate(inferred, now)
     \/ ~b.ignoreLinkDateInference /\ UsableDate(normalizeDate(existing), now)

\* the items of the feed of source b that fetchFeed looks at and that have
\* a usable date
DatedItems(b) ==
  {i \in 1..Min(Len(feeds[b.id].items), getMaxPostsForBlog(b)) : HasUsableDate(b, i)}

\* the link of the n-th smallest member of a set of item indices
RECURSIVE NthOf(_, _)
NthOf(S, n) ==
  LET least == CHOOSE i \in S : \A j \in S : i <= j
  IN IF n = 1 THEN least ELSE NthOf(S \ {least}, n - 1)

\* C16: for a source without allowMissingDates whose fetch succeeded, the
\* items without a usable primary, inferred or existing date are not among
\* the posts of the result: the posts are those of the dated items, in feed
\* order; the status of the result is ok with postCount the number of posts
\* retained, and so is the source's fetch-log row once the run has written it.
C16_UndatedExcluded ==
  \A k \in ResultIdx :
    LET b == FetchOrder[k]
        r == results[k]
    IN (r.status.status = "ok" /\ ~b.allowMissingDates) =>
         /\ Len(r.posts) = Cardinality(DatedItems(b))
         /\ \A j \in DOMAIN r.posts :
              r.posts[j].link =
                normalizeUrl(ItemLink(feeds[b.id].items[NthOf(DatedItems(b), j)], b),
                             b.url)
         /\ r.status.postCount = Cardinality(DatedItems(b))
         /\ runPc = "done" =>
              LET row == dbFetchLog[Len(dbFetchLog) - Len(results) + k]
              IN /\ row.blog_id = b.id
                 /\ row.status = "ok"
                 /\ row.post_count = Cardinality(DatedItems(b))

\* a source without allowMissingDates served a dated and an undated item:
\* its result holds one post and its fetch-log row says ok, 1
C16_Witness ==
  /\ runPc = "done"
  /\ \E k \in ResultIdx :
       /\ ~FetchOrder[k].allowMissingDates
       /\ results[k].status.status = "ok"
       /\ Len(feeds[FetchOrder[k].id].items) = 2
       /\ Cardinality(DatedItems(FetchOrder[k])) = 1
       /\ dbFetchLog[Len(dbFetchLog) - Len(results) + k].post_count = 1

-----------------------------------------------------------------------------
(* Properties of the date resolver (SpecDates).                            *)

\* the three dates of a call, as inputs of the resolution: the feed's date
\* of the item; the date in the link, read only when the source has not
\* disabled inference and has opted in or shares its host with the link; the
\* stored date, unless the source disables its use
PrimaryInput == IF dateIn.isoDate = BadDate THEN NoDate ELSE dateIn.isoDate
InferredInput ==
  IF ~dateIn.ignoreLinkDateInference
     /\ (dateIn.allowLinkDateInference \/ dateIn.linkHost = HostA)
     /\ dateIn.ymd # NoYmd
    THEN DateUTC(dateIn.ymd) ELSE NoDate
ExistingInput ==
  IF dateIn.ignoreLinkDateInference \/ dateIn.existingDate = BadDate
    THEN NoDate ELSE dateIn.existingDate

\* a date is valid when it is present and not more than MAX_FUTURE_DAYS
\* after now
ValidInput(d) ==
  d # NoDate /\ d <= dateIn.nowMs + MAX_FUTURE_DAYS * MinutesPerDay

InferredPreferred ==
  /\ ValidInput(PrimaryInput)
  /\ ValidInput(InferredInput)
  /\ PrimaryInput - InferredInput >= INFERRED_DATE_MAX_DIFF_DAYS * MinutesPerDay
  /\ PrimaryInput - dateIn.nowMs <= RECENT_PRIMARY_DAYS * MinutesPerDay
  /\ dateIn.nowMs - PrimaryInput <= RECENT_PRIMARY_DAYS * MinutesPerDay

\* C17: resolvePostDate returns the inferred date if primary and inferred
\* are valid, inferred is at least INFERRED_DATE_MAX_DIFF_DAYS earlier than
\* primary and primary is within RECENT_PRIMARY_DAYS of now; otherwise the
\* primary if valid; otherwise the inferred if valid; otherwise the existing
\* if valid; otherwise a synthesized date if the source allows missing
\* dates; otherwise no date.
C17_ResolutionOrder ==
  datePc = "resolved" =>
    IF InferredPreferred THEN dateOut = InferredInput
    ELSE IF ValidInput(PrimaryInput) THEN dateOut = PrimaryInput
    ELSE IF ValidInput(InferredInput) THEN dateOut = InferredInput
    ELSE IF ValidInput(ExistingInput) THEN dateOut = ExistingInput
    ELSE IF dateIn.allowMissingDates THEN dateOut # NoDate
    ELSE dateOut = NoDate

\* a call with a primary date two days old and a link dated 89 days before
\* it returned the link's date
C17_Witness ==
  /\ datePc = "resolved"
  /\ dateIn.nowMs = Day(100)
  /\ dateIn.isoDate = Day(98)
  /\ dateIn.existingDate = Day(40)
  /\ dateOut = Day(9)

\* the base instant of the synthesized date
FallbackBase ==
  IF dateIn.lastBuildDate # BadDate /\ ValidInput(dateIn.lastBuildDate)
    THEN dateIn.lastBuildDate ELSE dateIn.nowMs

\* C18 (as stated): for a source with allowMissingDates and an item without
\* a valid primary, inferred or existing date, the item at feed index n gets
\* the date n minutes before the base instant: the feed's timestamp if it is
\* valid, now otherwise.
C18_FallbackOffset_AsClaimed ==
  (datePc = "resolved" /\ dateIn.allowMissingDates
     /\ ~ValidInput(PrimaryInput) /\ ~ValidInput(InferredInput)
     /\ ~ValidInput(ExistingInput)) =>
    dateOut = FallbackBase - dateIn.index

\* C31: every date resolvePostDate returns, by any branch including the
\* synthesized fallback, lies at most MAX_FUTURE_DAYS ahead of now; a primary
\* date further ahead is never returned.
C31_FutureGuard ==
  (datePc = "resolved" /\ dateOut # NoDate) =>
    /\ dateOut - dateIn.nowMs <= MAX_FUTURE_DAYS * MinutesPerDay
    /\ (PrimaryInput # NoDate /\ ~ValidInput(PrimaryInput))
         => dateOut # PrimaryInput

-----------------------------------------------------------------------------
(* Properties of the verifier (SpecVerify).                                *)

\* what the structural checks of the verifier demand of the files: they
\* exist and parse, both arrays are there and non-empty, both lastUpdated
\* parse, every post has id, blogId, title, link and a date that parses,
\* no two posts share an id, no post is later than the one before it, every
\* status row has a blogId of its own and a lastFetched that parses, and the
\* summary counts are those of the rows
StructurallySound(a) ==
  LET posts == a.postsCache.posts
      rows == a.statusCache.feeds
      summary == a.statusCache.summary
  IN /\ a.postsExists /\ a.statusExists
     /\ a.blogsReadable /\ a.postsReadable /\ a.statusReadable
     /\ a.postsCache.postsIsArray /\ a.statusCache.feedsIsArray
     /\ a.postsCache.lastUpdated >= 0 /\ a.statusCache.lastUpdated >= 0
     /\ posts # <<>> /\ rows # <<>>
     /\ \A i \in DOMAIN posts :
          /\ posts[i].id # "" /\ posts[i].blogId # ""
          /\ posts[i].title # "" /\ posts[i].link # ""
          /\ posts[i].date >= 0
     /\ \A i, j \in DOMAIN posts : i # j => posts[i].id # posts[j].id
     /\ \A i \in DOMAIN posts : i > 1 => posts[i].date <= posts[i - 1].date
     /\ \A i \in DOMAIN rows : rows[i].blogId # "" /\ rows[i].lastFetched >= 0
     /\ \A i, j \in DOMAIN rows : i # j => rows[i].blogId # rows[j].blogId
     /\ summary.total = Len(rows)
     /\ summary.healthy
          = Cardinality({i \in DOMAIN rows : rows[i].status = "ok"})
     /\ summary.errors
          = Cardinality({i \in DOMAIN rows : rows[i].status = "error"})

\* the warnings the soft issues of the files call for
SoftIssues(a) ==
  LET posts == a.postsCache.posts
      rows == a.statusCache.feeds
  IN {m \in {"SQLite posts count is less than cache posts count",
             "lastUpdated is older than newest post date",
             "unexpected feed status",
             "feed status count != configured blogs count"} :
        \/ /\ m = "SQLite posts count is less than cache posts count"
           /\ a.dbOpens /\ a.dbPostCount < Len(posts)
        \/ /\ m = "lastUpdated is older than newest post date"
           /\ posts # <<>>
           /\ a.postsCache.lastUpdated + 60 < posts[1].date
        \/ /\ m = "unexpected feed status"
           /\ \E i \in DOMAIN rows : rows[i].status \notin {"ok", "error"}
        \/ /\ m = "feed status count != configured blogs count"
           /\ Len(rows) # a.blogsLength}

\* C19: the verifier exits with a non-zero status exactly when a structural
\* check failed; a soft issue (store count below cache count, lastUpdated
\* older than the newest post, unexpected status value, feed count unlike
\* the registry size) is printed as a warning and leaves the status zero
C19_ExitStatus ==
  verifyPc = "exited" =>
    /\ (verifyLog.exitStatus # 0) <=> ~StructurallySound(artifacts)
    /\ (verifyLog.exitStatus # 0) <=>
         (verifyLog.fails # {} \/ verifyLog.uncaught)
    /\ StructurallySound(artifacts) =>
         /\ SoftIssues(artifacts) \subseteq verifyLog.warns
         /\ verifyLog.exitStatus = 0

\* a run over sound files with all four soft issues: four warnings, exit 0
C19_Witness ==
  /\ verifyPc = "exited"
  /\ StructurallySound(artifacts)
  /\ Cardinality(SoftIssues(artifacts)) = 4
  /\ SoftIssues(artifacts) \subseteq verifyLog.warns
  /\ verifyLog.exitStatus = 0

-----------------------------------------------------------------------------
(* Properties of the URL and key helpers (SpecKeys).                       *)

\* the names of ParamNames whose lower-cased form starts with utm_ or is in
\* the tracking list
RemovedNames == {"utm_source", "UTM_Source", "utm_x", "ref", "Ref"}

\* a path without its trailing slash, when it is not the root path
WithoutTrailingSlash(path) ==
  IF path # <<47>> /\ path[Len(path)] = 47
    THEN SubSeq(path, 1, Len(path) - 1)
    ELSE path

\* C23: for every absolute URL, normalizeUrl returns the URL without its
\* fragment, without the query parameters whose lower-cased name starts
\* with utm_ or is in the tracking list, with every other query parameter
\* kept in its place, and without the trailing slash of a non-root path;
\* host and the rest of the path are as they were.
C23_Canonical ==
  (keyPc = "returned" /\ keyIn.fn = "normalizeUrl" /\ keyIn.link.host # <<>>)
  => /\ ~urlOut.frag
     /\ urlOut.query = SelectSeq(keyIn.link.query, LAMBDA n : n \notin RemovedNames)
     /\ urlOut.host = keyIn.link.host
     /\ PathCodes(urlOut) = WithoutTrailingSlash(PathCodes(keyIn.link))

\* https://a.io/Aa/?utm_source=1&ref=1&keep=1#f has become
\* https://a.io/Aa?keep=1
C23_Witness ==
  /\ keyPc = "returned"
  /\ keyIn.fn = "normalizeUrl"
  /\ keyIn.link = [Url(HostA, NoYmd, "Aa") EXCEPT
                     !.slashes = 1, !.query = <<"utm_source", "ref", "keep">>,
                     !.frag = TRUE]
  /\ UrlString(urlOut) = CharCodes("https://a.io/Aa?keep=1")

\* a guid that starts with http:// or https://
LooksLikeUrl(guid) == guid.host # <<>>

\* C26 as stated: a guid that does not look like a URL is passed over for
\* the title
C26_KeyPriority_AsClaimed ==
  (keyPc = "returned" /\ keyIn.fn = "getPostKey")
  => LET canonicalLink == normalizeUrl(keyIn.link, keyIn.baseUrl)
     IN keyOut = IF canonicalLink # NoUrl THEN UrlString(canonicalLink)
                 ELSE IF LooksLikeUrl(keyIn.guid)
                   THEN UrlString(normalizeUrl(keyIn.guid, keyIn.baseUrl))
                   ELSE CharCodes(trim(keyIn.title))

\* C26: getPostKey returns the canonical link when it is non-empty;
\* otherwise the guid when it is not blank: canonicalized as a link is when
\* it starts with http:// or https://, and trimmed but otherwise as it is
\* when it does not; otherwise the trimmed title.
C26_KeyPriority ==
  (keyPc = "returned" /\ keyIn.fn = "getPostKey")
  => LET canonicalLink == normalizeUrl(keyIn.link, keyIn.baseUrl)
     IN keyOut = IF canonicalLink # NoUrl THEN UrlString(canonicalLink)
                 ELSE IF LooksLikeUrl(keyIn.guid)
                   THEN UrlString(normalizeUrl(keyIn.guid, keyIn.baseUrl))
                 ELSE IF trim(keyIn.guid.text) # ""
                   THEN CharCodes(trim(keyIn.guid.text))
                   ELSE CharCodes(trim(keyIn.title))

\* an item without a link whose guid is an opaque text: the key is the
\* trimmed guid, not the title
C26_Witness ==
  /\ keyPc = "returned"
  /\ keyIn.fn = "getPostKey"
  /\ keyIn.link = NoUrl
  /\ keyIn.guid = PlainText(" q ")
  /\ keyIn.title = "T1"
  /\ keyOut = CharCodes("q")

-----------------------------------------------------------------------------
(* Properties of the runs over an edited feed (SpecEdits).                 *)

\* an item that has neither a link nor a guid
Linkless(item) == item.link = NoUrl /\ item.guid = NoUrl

\* the store holds a post of source id under this title
StoredUnderTitle(id, title) ==
  \E r \in DOMAIN dbPosts : dbPosts[r].blog_id = id /\ dbPosts[r].title = title

\* C27: an item with neither a link nor a guid is identified by its trimmed
\* title: after a run that fetched the source, two such items of one feed
\* with different titles have different lookup keys and are two posts of
\* the store.
C27_TitleIdentified ==
  runPc = "done" =>
    \A k \in DOMAIN results :
      LET b == FetchOrder[k]
          items == feeds[b.id].items
      IN results[k].status.status = "ok" =>
           \A i, j \in DOMAIN items :
             (/\ i # j
              /\ Linkless(items[i])
              /\ Linkless(items[j])
              /\ trim(items[i].title) # trim(items[j].title))
             => /\ makeLookupKey(b.id, ItemPostKey(items[i], i - 1, b))
                     # makeLookupKey(b.id, ItemPostKey(items[j], j - 1, b))
                /\ StoredUnderTitle(b.id, items[i].title)
                /\ StoredUnderTitle(b.id, items[j].title)

\* the fresh posts of the run in the order in which the merge takes them
FreshPosts == SortByDateDesc(FlatPosts(results))

\* the first fresh post of its lookup key
FirstOfKey(k) ==
  \A j \in 1..(k - 1) :
    getLookupKeyForPost(FreshPosts[j]) # getLookupKeyForPost(FreshPosts[k])

\* a post of the store before the run has this lookup key
InStoreBefore(key) ==
  \E e \in DOMAIN existingPosts :
    /\ existingPosts[e].id \in idsBefore
    /\ getLookupKeyForPost(existingPosts[e]) = key

SameMutableFields(p, q) ==
  p.title = q.title /\ p.link = q.link /\ p.excerpt = q.excerpt

\* C28: whenever a fresh post of a run (the first of its key, should the
\* feed carry the key twice) has the lookup key of a post already in the
\* store, then after the run the merged list and the store each hold one
\* post of that key, with the title, link and excerpt of the fresh post.
C28_FreshPrecedence ==
  runPc = "done" =>
    \A k \in DOMAIN FreshPosts :
      LET p == FreshPosts[k]
          key == getLookupKeyForPost(p)
          merged == {m \in DOMAIN allPosts :
                       getLookupKeyForPost(allPosts[m]) = key}
          rows == {r \in DOMAIN dbPosts :
                     getLookupKeyForPost(RowPost(dbPosts[r])) = key}
      IN FirstOfKey(k) /\ InStoreBefore(key)
           => /\ Cardinality(merged) = 1
              /\ \A m \in merged : SameMutableFields(allPosts[m], p)
              /\ Cardinality(rows) = 1
              /\ \A r \in rows : SameMutableFields(RowPost(dbPosts[r]), p)

\* no fresh post of the run has the lookup key of post p
NotObserved(p) ==
  \A k \in DOMAIN FreshPosts :
    getLookupKeyForPost(FreshPosts[k]) # getLookupKeyForPost(p)

\* C29: after a run, every post that was in the store before the run and
\* that the run did not observe is in the store with the id, source, title,
\* link, date and excerpt it had, and is in the exported cache with them.
C29_UnobservedUnchanged ==
  runPc = "done" =>
    \A e \in DOMAIN existingPosts :
      LET p == existingPosts[e]
      IN p.id \in idsBefore /\ NotObserved(p)
           => /\ \E r \in DOMAIN dbPosts : RowPost(dbPosts[r]) = p
              /\ \E m \in DOMAIN cacheFile.posts : cacheFile.posts[m] = p

\* C30: after a run that observes again a post already in the store, the
\* fetched_at of the post's row is the timestamp of that run.
C30_FetchedAtLastObserved ==
  runPc = "done" =>
    \A k \in DOMAIN FreshPosts :
      FreshPosts[k].id \in idsBefore
        => \A r \in DOMAIN dbPosts :
             dbPosts[r].id = FreshPosts[k].id => dbPosts[r].fetched_at = now

-----------------------------------------------------------------------------
(* Properties of the fetch log and of the exporter (Spec).                 *)

\* the rows the table holds beyond those the run found
RowsAdded ==
  SubSeq(dbFetchLog, Len(runLog.logBefore) + 1, Len(dbFetchLog))

\* the rows the run found are still there, in their places
LogKept ==
  /\ Len(runLog.logBefore) <= Len(dbFetchLog)
  /\ SubSeq(dbFetchLog, 1, Len(runLog.logBefore)) = runLog.logBefore

RowsOf(rows, id) == Cardinality({k \in DOMAIN rows : rows[k].blog_id = id})

\* C32 as stated: no run modifies or deletes a fetch_log row that existed
\* before it, and a run that completes has inserted exactly one row for each
\* source.
C32_FetchLogAppendOnly_AsClaimed ==
  runPc \in {"fetching", "done", "failed"} =>
    /\ LogKept
    /\ runPc = "done" => \A id \in RegistryIds : RowsOf(RowsAdded, id) = 1

\* the rows a run inserts for its own results: one per source, in the order
\* of the results
OwnRows ==
  [k \in DOMAIN results |->
     [blog_id |-> results[k].status.blogId, status |-> results[k].status.status,
      post_count |-> results[k].status.postCount,
      error |-> results[k].status.error,
      fetched_at |-> results[k].status.lastFetched]]

\* C32: no run modifies or deletes a fetch_log row that existed before it.
\* A run that completes has inserted one row for each source from its
\* results, a run whose writes threw none; before them the run has inserted
\* the rows of the status file when it found the table empty and the file
\* listing feeds (and that write did not throw), and no other row.
C32_FetchLogAppendOnly ==
  runPc \in {"fetching", "done", "failed"} =>
    /\ LogKept
    /\ runPc \in {"fetching", "failed"} =>
         /\ Len(RowsAdded) \in {0, Len(statusFile.feeds)}
         /\ Len(RowsAdded) > 0 =>
              /\ runLog.logBefore = <<>>
              /\ "seedLogs" \notin runLog.failed
              /\ \A k \in DOMAIN RowsAdded :
                   RowsAdded[k].blog_id = statusFile.feeds[k].blogId
         /\ (runLog.logBefore = <<>> /\ statusFile.exists
               /\ "seedLogs" \notin runLog.failed)
              => Len(RowsAdded) = Len(statusFile.feeds)
    /\ runPc = "done" =>
         /\ Len(RowsAdded) >= Len(OwnRows)
         /\ SubSeq(RowsAdded, Len(RowsAdded) - Len(OwnRows) + 1, Len(RowsAdded))
              = OwnRows
         /\ \A id \in RegistryIds : RowsOf(OwnRows, id) = 1
         /\ Len(RowsAdded) > Len(OwnRows) => runLog.logBefore = <<>>

\* a run that found the table empty and a status file of two rows has
\* completed: the table holds the two rows of the file and the two of the run
C32_Witness ==
  /\ runPc = "done"
  /\ runs = 1
  /\ runLog.logBefore = <<>>
  /\ Len(dbFetchLog) = 4

\* the exporter has written the files from the store as it is now
Exported == runPc = "idle" /\ "export" \in between

\* the sources with a row in the fetch_log table
LoggedSources == {dbFetchLog[k].blog_id : k \in DOMAIN dbFetchLog}

\* the place of the row inserted last for source id
LastRowOf(id) ==
  CHOOSE k \in DOMAIN dbFetchLog :
    /\ dbFetchLog[k].blog_id = id
    /\ \A j \in DOMAIN dbFetchLog : dbFetchLog[j].blog_id = id => j <= k

\* a row of feeds[] carries the values of a row of the table
SameRow(feed, row) ==
  /\ feed.blogId = row.blog_id
  /\ feed.status = row.status
  /\ feed.postCount = row.post_count
  /\ feed.lastFetched = row.fetched_at
  /\ feed.error = row.error

\* feeds[] holds exactly one row for each source that has a fetch_log row,
\* the values of the row inserted last for it, and no other row
StatusProjected ==
  /\ \A id \in LoggedSources :
       /\ Cardinality({i \in DOMAIN statusFile.feeds :
                         statusFile.feeds[i].blogId = id}) = 1
       /\ \A i \in DOMAIN statusFile.feeds :
            statusFile.feeds[i].blogId = id
              => SameRow(statusFile.feeds[i], dbFetchLog[LastRowOf(id)])
  /\ \A i \in DOMAIN statusFile.feeds :
       statusFile.feeds[i].blogId \in LoggedSources

\* C33: the feeds[] list the exporter writes holds exactly one row for each
\* source that has a fetch_log row, and no other row; the row of a source is
\* the fetch_log row inserted last for it. Stated of every step of the
\* exporter: the status file it leaves is that projection of the store.
C33_StatusProjection == [][ExportCache => StatusProjected']_vars

\* the exporter has run after two runs whose rows for the first source
\* differ in status: feeds[] carries the status of the second run
C33_Witness ==
  /\ Exported
  /\ Len(dbFetchLog) = 4
  /\ dbFetchLog[1].blog_id = dbFetchLog[3].blog_id
  /\ dbFetchLog[1].status = "error"
  /\ dbFetchLog[3].status = "ok"
  /\ \E i \in DOMAIN statusFile.feeds :
       /\ statusFile.feeds[i].blogId = dbFetchLog[3].blog_id
       /\ statusFile.feeds[i].status = "ok"

-----------------------------------------------------------------------------
(* Soundness of the verifier (SpecVerify).                                 *)

\* the verifier has exited with status zero
VerifiedOk == verifyPc = "exited" /\ verifyLog.exitStatus = 0

\* every post has a non-empty id, blogId, title and link and a date that
\* parses, and no two posts share an id
PostsWellFormed ==
  LET posts == artifacts.postsCache.posts
  IN /\ \A i \in DOMAIN posts :
          /\ posts[i].id # "" /\ posts[i].blogId # ""
          /\ posts[i].title # "" /\ posts[i].link # ""
          /\ posts[i].date \notin {NoDate, BadDate}
     /\ \A i, j \in DOMAIN posts : i # j => posts[i].id # posts[j].id

\* the summary counts are those recomputed from feeds[]
SummaryRecomputed ==
  LET rows == artifacts.statusCache.feeds
      summary == artifacts.statusCache.summary
  IN /\ summary.total = Len(rows)
     /\ summary.healthy = Cardinality({i \in DOMAIN rows : rows[i].status = "ok"})
     /\ summary.errors
          = Cardinality({i \in DOMAIN rows : rows[i].status = "error"})

\* C34 as stated: whenever the verifier exits zero, every post is well
\* formed, no two posts share an id, the post list is strictly descending
\* by date, and the summary counts equal those recomputed from feeds[].
C34_VerifierSound_AsClaimed ==
  VerifiedOk =>
    /\ PostsWellFormed
    /\ \A i \in DOMAIN artifacts.postsCache.posts :
         i > 1 => artifacts.postsCache.posts[i].date
                    < artifacts.postsCache.posts[i - 1].date
    /\ SummaryRecomputed

\* C34: whenever the verifier exits zero, every post is well formed, no two
\* posts share an id, no post of the list is later than the post before it
\* (posts of equal date may follow one another), and the summary counts
\* equal those recomputed from feeds[].
C34_VerifierSound ==
  VerifiedOk =>
    /\ PostsWellFormed
    /\ \A i \in DOMAIN artifacts.postsCache.posts :
         i > 1 => artifacts.postsCache.posts[i].date
                    <= artifacts.postsCache.posts[i - 1].date
    /\ SummaryRecomputed

\* the verifier has exited zero over a post list whose two posts carry the
\* same date
C34_Witness ==
  /\ VerifiedOk
  /\ Len(artifacts.postsCache.posts) = 2
  /\ artifacts.postsCache.posts[1].date = artifacts.postsCache.posts[2].date

-----------------------------------------------------------------------------
(* Properties of the requests of a run (SpecCalls).                        *)

\* the page fetches in flight: <<blog id, index>> of every item callback
\* that awaits fetchPageExcerpt
PagesInFlight ==
  {p \in (DOMAIN feedCalls) \X (0..(MaxCallItems - 1)) :
     p[2] \in feedCalls[p[1]].out}

\* C35: at every moment of a run, the page-excerpt fetches in flight, over
\* all sources together, are at most EXCERPT_CONCURRENCY
C35_ExcerptConcurrency ==
  Cardinality(PagesInFlight) <= callConfig.EXCERPT_CONCURRENCY

\* the item callbacks of call c that have ended
EndedItems(c) == {k \in 0..(c.next - 1) : k \notin c.out}

\* the excerpt C36 gives the item at index k of call c
ResolvedExcerpt(c, k) ==
  IF createExcerpt(callFeed[k + 1].snippet) # ""
    THEN createExcerpt(callFeed[k + 1].snippet)
  ELSE IF callFeed[k + 1].stored = "kept" THEN "E1"
  ELSE IF k \in c.scraped THEN c.pages[k + 1]
  ELSE ""

\* C36: the excerpt of every item is the feed's content when that is not
\* empty, else the excerpt stored under its key when that is not empty, else
\* what the page scrape gave; a page is fetched only for an item with
\* neither, whose post is not in the store, with page excerpts enabled; and
\* a call fetches at most MAX_PAGE_EXCERPTS_PER_FEED pages
C36_ExcerptResolution ==
  \A i \in DOMAIN feedCalls :
    /\ \A k \in EndedItems(feedCalls[i]) :
         feedCalls[i].excerpts[k + 1] = ResolvedExcerpt(feedCalls[i], k)
    /\ \A k \in feedCalls[i].scraped :
         /\ callFeed[k + 1].stored = "none"
         /\ createExcerpt(callFeed[k + 1].snippet) = ""
         /\ callConfig.FETCH_PAGE_EXCERPTS
    /\ Cardinality(feedCalls[i].scraped) <= callConfig.MAX_PAGE_EXCERPTS_PER_FEED
    /\ fetchCount[i] <= 1

\* a call has returned whose first item took its excerpt from the page and
\* whose second item, new as well and without content, was past the cap
C36_Witness ==
  \E i \in DOMAIN feedCalls :
    /\ feedCalls[i].pc = "returned"
    /\ callConfig.MAX_PAGE_EXCERPTS_PER_FEED = 1
    /\ Len(callFeed) = 2
    /\ callFeed[2] = CallItem("", "none")
    /\ feedCalls[i].scraped = {0}
    /\ feedCalls[i].excerpts = <<"P1", "">>

\* the relay requests in flight
RelayInFlight == {i \in DOMAIN feedCalls : feedCalls[i].pc = "relay"}

\* C37 as stated: at every moment of a run at most SUBSTACK_BATCH_SIZE relay
\* requests are in flight, those made as fallback for direct sources included
C37_RelayThrottle_AsClaimed ==
  Cardinality(RelayInFlight) <= config.SUBSTACK_BATCH_SIZE

\* C37: at every moment of a run the relay requests in flight are either
\* those of one batch of sensitive sources, at most SUBSTACK_BATCH_SIZE, or
\* fallbacks of direct sources, at most FEED_CONCURRENCY
C37_RelayThrottle ==
  \/ /\ \A i \in RelayInFlight : ~feedCalls[i].fellBack
     /\ Cardinality(RelayInFlight) <= config.SUBSTACK_BATCH_SIZE
  \/ /\ \A i \in RelayInFlight : feedCalls[i].fellBack
     /\ Cardinality(RelayInFlight) <= config.FEED_CONCURRENCY

\* two direct sources have both fallen back to the relay while the batch
\* size is one
C37_Witness ==
  /\ config.SUBSTACK_BATCH_SIZE = 1
  /\ Cardinality(RelayInFlight) = 2
  /\ \A i \in RelayInFlight : feedCalls[i].fellBack

-----------------------------------------------------------------------------
(* The round trip of the lookup key through the store (Spec, SpecEdits).   *)

\* the lookup key fetchFeed computes for the item at index (0-based)
ItemLookupKey(b, item, index) ==
  makeLookupKey(b.id, ItemPostKey(item, index, b))

\* the items of the feed of source b that fetchFeed turns into posts
PostedItems(b) ==
  {k \in 1..Min(Len(feeds[b.id].items), getMaxPostsForBlog(b)) :
     PostOfItem(feeds[b.id].items[k], k - 1, feeds[b.id], b, existingPosts, now)
       # NoPost}

\* the key of the post made from an item, computed from the post's stored
\* link and title, is the key computed from the item
KeysAgree ==
  \A j \in DOMAIN Registry :
    \A k \in PostedItems(Registry[j]) :
      ExistingKey(PostOfItem(feeds[Registry[j].id].items[k], k - 1,
                             feeds[Registry[j].id], Registry[j],
                             existingPosts, now))
        = ItemLookupKey(Registry[j], feeds[Registry[j].id].items[k], k - 1)

\* the sources whose fetchFeed call returned posts in this run
FetchedOk ==
  {j \in DOMAIN results : results[j].status.status = "ok"}

\* existingPostsByKey.get(lookupKey) of a run that starts from the store as
\* it is now
StoredPostFor(lookupKey) == ExistingPostFor(loadPosts(dbPosts), lookupKey)

\* C38: when a run has written the store, every post fetchFeed made from an
\* item has the lookup key of that item, and a lookup of the item's key in
\* the store finds that post, under its id
C38_LookupKeyRoundTrip ==
  runPc = "done" =>
    /\ KeysAgree
    /\ \A j \in FetchedOk :
         \A k \in PostedItems(FetchOrder[j]) :
           StoredPostFor(ItemLookupKey(FetchOrder[j],
                                       feeds[FetchOrder[j].id].items[k], k - 1)).id
             = PostOfItem(feeds[FetchOrder[j].id].items[k], k - 1,
                          feeds[FetchOrder[j].id], FetchOrder[j],
                          existingPosts, now).id

-----------------------------------------------------------------------------
(* The cache file against the store (Spec, SpecStores).                     *)

\* the ids of the posts of written posts.json
CacheIds == {cacheFile.posts[k].id : k \in DOMAIN cacheFile.posts}

\* the ids of the posts the exporter would write from the store
ExportIds == {loadPosts(dbPosts)[k].id : k \in DOMAIN loadPosts(dbPosts)}

\* C39: when a run has written its files, whatever the store held before,
\* posts.json holds the ids of the rows of table posts, which are the ids
\* the exporter would write
C39_CacheIsProjection ==
  runPc = "done" => (CacheIds = StoreIds /\ StoreIds = ExportIds)

====
